---- MODULE Spec2Model ----
(***************************************************************************)
(* Planning core of the smart tutor (Module3_Planning.py): the planning    *)
(* graph builder with action and literal mutexes, the greedy GraphPlan     *)
(* extractor, the plan simulator and the partial-order planner.            *)
(* Tutor side (Module4_RF.py, evaluate.py, Module1_Bayesian.py,            *)
(* bayes_model.py): the student simulator, the tabular Q-learner with its  *)
(* snapshot file, and the two emotion estimators.                          *)
(*                                                                         *)
(* Python level index i is element i+1 of the TLA+ sequences               *)
(* literal_levels, action_levels, action_mutex_levels and                  *)
(* literal_mutex_levels; POP step index i is element i+1 of steps.         *)
(***************************************************************************)
EXTENDS Naturals, Integers, Sequences, FiniteSets, TLC

VARIABLES
    pc,                     \* position in the program
    actions,                \* the domain: a list of action records
    initial,                \* initial literal set
    goal,                   \* goal literal set
    max_levels,             \* depth budget of build_planning_graph
    lvl,                    \* loop variable of the builder / the extractor's backward pass
    literal_levels,         \* list of literal sets
    action_levels,          \* list of lists of applicable actions
    action_mutex_levels,    \* list of sets of ordered pairs of action names
    literal_mutex_levels,   \* list of sets of ordered pairs of literals
    level_with_goal,        \* Python index of the goal level, -1 for None
    needed,                 \* literals still required by the backward pass
    chosen_actions_by_level,\* names chosen per level
    gp_plan,                \* result of graphplan_extract: [none, flat]
    plan,                   \* plan handed to simulate_plan
    state,                  \* simulate_plan: working literal set
    sim_i,                  \* simulate_plan: number of plan entries applied so far
    sim_ret,                \* simulate_plan: [returned, ok, err]
    max_iters,              \* iteration budget of POPPlanner.plan
    steps,                  \* POP: list of step records, Start and Finish first
    order,                  \* POP: set of ordering pairs <<i, j>> of Python step indices
    causal_links,           \* POP: list of <<producer_idx, literal, consumer_idx>>
    open_conditions,        \* POP: queue of <<consumer_idx, literal>>
    iter_count,             \* POP: iterations of the open-condition loop so far
    popped,                 \* POP: the loop locals consumer_idx and lit of the last iteration
    indeg,                  \* linearization: in-degree per step index
    q,                      \* linearization: the deque of Kahn's algorithm
    topo,                   \* linearization: step indices in output order
    pop_ret,                \* result of POPPlanner.plan: [returned, none, linearization, causal_links]
    mastery_level,          \* StudentSimulator: mastery, in hundredths
    frustration,            \* StudentSimulator: frustration, in hundredths
    engagement,             \* StudentSimulator: engagement, in hundredths
    response,               \* label returned by the last respond call
    calls,                  \* number of calls made so far on the tutor side
    q_table,                \* QLearningTutor: state triple -> action -> value in ten-thousandths
    n_buckets,              \* QLearningTutor: buckets per dimension
    snapshot,               \* the Q-table file: [exists, entries], entries a list of <<key, row>>
    call,                   \* the last call on the tutor side with its arguments and result
    touched,                \* history: states passed to ensure_state, choose_action or update
    targeted                \* history: <<state, action>> pairs an update was aimed at

vars == <<pc, actions, initial, goal, max_levels, lvl, literal_levels, action_levels,
          action_mutex_levels, literal_mutex_levels, level_with_goal, needed,
          chosen_actions_by_level, gp_plan, plan, state, sim_i, sim_ret, max_iters, steps,
          order, causal_links, open_conditions, iter_count, popped, indeg, q, topo, pop_ret,
          mastery_level, frustration, engagement, response, calls, q_table, n_buckets,
          snapshot, call, touched, targeted>>

graphVars == <<literal_levels, action_levels, action_mutex_levels, literal_mutex_levels>>
inputVars == <<actions, initial, goal, max_levels>>
extractVars == <<level_with_goal, needed, chosen_actions_by_level, gp_plan>>
simVars == <<plan, state, sim_i, sim_ret>>
popVars == <<max_iters, steps, order, causal_links, open_conditions, iter_count, popped,
             indeg, q, topo, pop_ret>>
studentVars == <<mastery_level, frustration, engagement, response>>
learnerVars == <<q_table, n_buckets, snapshot, touched, targeted>>
tutorVars == <<studentVars, learnerVars, calls, call>>
plannerVars == <<inputVars, graphVars, extractVars, simVars, popVars, lvl>>

\* Lines 25-31: a freshly constructed StudentSimulator; no call made yet.
StudentInit ==
    /\ mastery_level = 30
    /\ frustration = 20
    /\ engagement = 70
    /\ response = "none"

\* The tutor side before anything is constructed beyond the defaults.
\* Line 81: n_buckets=5.
DefaultBuckets == 5

NoCall == [op |-> "none"]
NoFile == [exists |-> FALSE, entries |-> <<>>]

\* Lines 80-90: a freshly constructed QLearningTutor; no file written.
LearnerInit ==
    /\ q_table = <<>>
    /\ n_buckets = DefaultBuckets
    /\ snapshot = NoFile
    /\ touched = {}
    /\ targeted = {}

\* The tutor side before anything is constructed beyond the defaults.
TutorIdle ==
    /\ StudentInit
    /\ LearnerInit
    /\ calls = 0
    /\ call = NoCall

----------------------------------------------------------------------------
(* Literals and actions                                                    *)

CH == "ch1"

literal(pred) == pred \o "(" \o CH \o ")"

Action(name, pre, add, delete) ==
    [name |-> name, pre |-> pre, add |-> add, del |-> delete]

\* The reference domain (the module-level ACTIONS list), in declaration order.
REF_ACTIONS ==
    << Action("TeachConcept",
              {literal("NoKnowledge")},
              {literal("BasicUnderstanding"), literal("Neutral")},
              {literal("NoKnowledge")}),
       Action("AskNeutralQuestion",
              {literal("Neutral")},
              {literal("ReadyForNeutralEval_Confident"), literal("ReadyForNeutralEval_Bored"),
               literal("ReadyForNeutralEval_Confused"), literal("ReadyForNeutralEval_Frustrated")},
              {}),
       Action("EvalNeutral_Confident",
              {literal("ReadyForNeutralEval_Confident")},
              {literal("Confident"), literal("BranchVisited_Confident")},
              {}),
       Action("EvalNeutral_Bored",
              {literal("ReadyForNeutralEval_Bored")},
              {literal("Bored"), literal("BranchVisited_Bored")},
              {}),
       Action("EvalNeutral_Confused",
              {literal("ReadyForNeutralEval_Confused")},
              {literal("Confused"), literal("BranchVisited_Confused")},
              {}),
       Action("EvalNeutral_Frustrated",
              {literal("ReadyForNeutralEval_Frustrated")},
              {literal("Frustrated"), literal("BranchVisited_Frustrated")},
              {}),
       Action("GiveHardProblem_FromConfident",
              {literal("Confident")}, {literal("SolvedMany")}, {}),
       Action("GiveHardProblem_FromBored",
              {literal("Bored")}, {literal("SolvedMany")}, {}),
       Action("GiveEasyProblem_FromConfused",
              {literal("Confused")}, {literal("Confident")}, {literal("Confused")}),
       Action("GiveHint_FromFrustrated",
              {literal("Frustrated")},
              {literal("ReadyForEasyQuestion"), literal("Confused")},
              {literal("Frustrated")}),
       Action("AskEasyQuestion",
              {literal("ReadyForEasyQuestion")}, {literal("ReadyForEasyEval")}, {}),
       Action("EvalEasy_Solved",
              {literal("ReadyForEasyEval")}, {literal("Confident")},
              {literal("ReadyForEasyEval")}),
       Action("FinalAssessment_AllBranches",
              {literal("BranchVisited_Confident"), literal("BranchVisited_Bored"),
               literal("BranchVisited_Confused"), literal("BranchVisited_Frustrated"),
               literal("SolvedMany")},
              {literal("FullKnowledge")},
              {}) >>

RefInitial == {literal("NoKnowledge")}
RefGoal == {literal("FullKnowledge")}
RefMaxLevels == 10

----------------------------------------------------------------------------
(* Bounded inputs: small domains over three literals                       *)

MaxActions == 2
MaxLevels == 3

SmallLits == {"p", "q", "r"}

\* Action schemas the small domains are assembled from.
SchemaPool ==
    << Action("MakeP",     {},         {"p"},      {}),
       Action("PtoQ",      {"p"},      {"q"},      {}),
       Action("QtoP",      {"q"},      {"p"},      {}),
       Action("PtoPQ",     {"p"},      {"p", "q"}, {}),
       Action("MakeQDelP", {},         {"q"},      {"p"}),
       Action("QtoRDelQ",  {"q"},      {"r"},      {"q"}),
       Action("FlipR",     {},         {"r"},      {"r"}),
       Action("PQtoR",     {"p", "q"}, {"r"},      {}) >>

\* Injective index lists of length n into the pool.
PoolSeqs(n) ==
    {s \in [1..n -> 1..Len(SchemaPool)] : \A i, j \in 1..n : i # j => s[i] # s[j]}

SmallDomains ==
    UNION {{[i \in 1..n |-> SchemaPool[s[i]]] : s \in PoolSeqs(n)} : n \in 0..MaxActions}

SmallInitials == SUBSET SmallLits
SmallGoals == SUBSET SmallLits

----------------------------------------------------------------------------
(* build_planning_graph                                                    *)

Last(s) == s[Len(s)]

Names(acts) == [i \in 1..Len(acts) |-> acts[i].name]

SeqRange(s) == {s[i] : i \in 1..Len(s)}

Applicable(acts, cur_literals) ==
    SelectSeq(acts, LAMBDA a : a.pre \subseteq cur_literals)

\* Mutant: only inconsistent effects make two actions mutex.
actions_mutexEffectsOnly(a1, a2, current_literals) ==
    (a1.add \cap a2.del) # {} \/ (a2.add \cap a1.del) # {}

actions_mutex(a1, a2, current_literals) ==
    \/ (a1.add \cap a2.del) # {} \/ (a2.add \cap a1.del) # {}
    \/ (a1.del \cap a2.pre) # {} \/ (a2.del \cap a1.pre) # {}

\* Both ordered pairs of every 2-combination of the applicable list that is mutex.
MutexActions(applicable, cur_literals) ==
    UNION {{<<applicable[i].name, applicable[j].name>>,
            <<applicable[j].name, applicable[i].name>>} :
           <<i, j>> \in {ij \in (1..Len(applicable)) \X (1..Len(applicable)) :
                           /\ ij[1] < ij[2]
                           /\ actions_mutex(applicable[ij[1]], applicable[ij[2]],
                                            cur_literals)}}

\* Mutant: the next level keeps only the add effects (persistence forgotten).
NextLiteralsNoPersistence(cur_literals, applicable) ==
    UNION {applicable[i].add : i \in 1..Len(applicable)}

NextLiterals(cur_literals, applicable) ==
    cur_literals \cup UNION {applicable[i].add : i \in 1..Len(applicable)}

PersistName(l) == "PERSIST_" \o l

IsPersist(p) == Len(p) >= 8 /\ SubSeq(p, 1, 8) = "PERSIST_"

Producers(l, applicable, cur_literals) ==
    {applicable[i].name : i \in {k \in 1..Len(applicable) : l \in applicable[k].add}}
    \cup (IF l \in cur_literals THEN {PersistName(l)} ELSE {})

\* Mutant: a persistence producer is taken as mutex with every producer.
AllPairsMutexPersistMutex(prods1, prods2, mutex_actions) ==
    \A p1 \in prods1 : \A p2 \in prods2 :
        IsPersist(p1) \/ IsPersist(p2) \/ <<p1, p2>> \in mutex_actions

\* all_pairs_mutex after the double loop over the producers of l1 and l2.
AllPairsMutex(prods1, prods2, mutex_actions) ==
    \A p1 \in prods1 : \A p2 \in prods2 :
        /\ ~(IsPersist(p1) /\ IsPersist(p2))
        /\ ~(IsPersist(p1) \/ IsPersist(p2))
        /\ <<p1, p2>> \in mutex_actions

MutexLiterals(next_literals, applicable, cur_literals, mutex_actions) ==
    {l12 \in next_literals \X next_literals :
        /\ l12[1] # l12[2]
        /\ AllPairsMutex(Producers(l12[1], applicable, cur_literals),
                         Producers(l12[2], applicable, cur_literals),
                         mutex_actions)}

\* Mutant: the fixed-point test never stops the loop.
FixedPointNever(next_literals, cur_literals) == FALSE

FixedPoint(next_literals, cur_literals) == next_literals = cur_literals

\* One iteration of the builder's for loop; the loop ends at the fixed point
\* or when range(max_levels) is exhausted.
ExpandLevel ==
    /\ pc = "build"
    /\ lvl < max_levels
    /\ LET cur_literals == Last(literal_levels)
           applicable == Applicable(actions, cur_literals)
           mutex_actions == MutexActions(applicable, cur_literals)
           next_literals == NextLiterals(cur_literals, applicable)
           mutex_literals == MutexLiterals(next_literals, applicable, cur_literals,
                                           mutex_actions)
       IN /\ action_levels' = Append(action_levels, applicable)
          /\ action_mutex_levels' = Append(action_mutex_levels, mutex_actions)
          /\ literal_levels' = Append(literal_levels, next_literals)
          /\ literal_mutex_levels' = Append(literal_mutex_levels, mutex_literals)
          /\ lvl' = lvl + 1
          /\ pc' = IF FixedPoint(next_literals, cur_literals) \/ lvl + 1 >= max_levels
                   THEN "find" ELSE "build"
    /\ UNCHANGED <<tutorVars, inputVars, extractVars, simVars, popVars>>

----------------------------------------------------------------------------
(* graphplan_extract                                                       *)

MaxOf(S) == CHOOSE x \in S : \A y \in S : y <= x

MinOf(S) == CHOOSE x \in S : \A y \in S : x <= y

\* Python indices of the literal levels that contain every goal literal.
GoalLevels(levels, goal_literals) ==
    {i \in 0..(Len(levels) - 1) : goal_literals \subseteq levels[i + 1]}

\* Mutant: only level 0 is examined.
LevelWithGoalZeroOnly(levels, goal_literals) ==
    IF goal_literals \subseteq levels[1] THEN 0 ELSE -1

\* The loop over enumerate(literal_levels) has no break: the last match stays.
LevelWithGoal(levels, goal_literals) ==
    IF GoalLevels(levels, goal_literals) = {} THEN -1
    ELSE MaxOf(GoalLevels(levels, goal_literals))

Candidates(available_actions, need) ==
    SelectSeq(available_actions, LAMBDA a : Cardinality(a.add \cap need) > 0)

\* Sort key (-len(a['add'] & needed), len(a['pre'])), compared as Python tuples.
KeyLess(a, b, need) ==
    LET ca == Cardinality(a.add \cap need)
        cb == Cardinality(b.add \cap need)
    IN \/ ca > cb
       \/ ca = cb /\ Cardinality(a.pre) < Cardinality(b.pre)

RemoveAt(s, i) == SubSeq(s, 1, i - 1) \o SubSeq(s, i + 1, Len(s))

\* list.sort is stable: among equal keys the declaration order is kept.
RECURSIVE SortCandidates(_, _)
SortCandidates(cands, need) ==
    IF cands = <<>> THEN <<>>
    ELSE LET first == MinOf({i \in 1..Len(cands) :
                               \A j \in 1..Len(cands) : ~KeyLess(cands[j], cands[i], need)})
         IN <<cands[first]>> \o SortCandidates(RemoveAt(cands, first), need)

\* Mutant: an action never conflicts with the ones already chosen.
ConflictNever(a, chosen, mutex_actions) == FALSE

\* Lines 304-308.
Conflict(a, chosen, mutex_actions) ==
    \E k \in 1..Len(chosen) : <<a.name, chosen[k].name>> \in mutex_actions

\* The for loop over the sorted candidates, from candidate i on.
RECURSIVE ChooseLoop(_, _, _, _, _)
ChooseLoop(cands, i, chosen, need, mutex_actions) ==
    IF i > Len(cands) THEN [chosen |-> chosen, needed |-> need]
    ELSE IF Conflict(cands[i], chosen, mutex_actions)
         THEN ChooseLoop(cands, i + 1, chosen, need, mutex_actions)
         ELSE ChooseLoop(cands, i + 1, Append(chosen, cands[i]),
                         (need \ (cands[i].add \cap need)) \cup cands[i].pre,
                         mutex_actions)

SelectAtLevel(available_actions, mutex_actions, need) ==
    ChooseLoop(SortCandidates(Candidates(available_actions, need), need), 1, <<>>,
               need, mutex_actions)

RECURSIVE Dedupe(_, _)
Dedupe(names, flat) ==
    IF names = <<>> THEN flat
    ELSE Dedupe(Tail(names),
                IF Head(names) \in SeqRange(flat) THEN flat ELSE Append(flat, Head(names)))

RECURSIVE Concat(_)
Concat(ss) == IF ss = <<>> THEN <<>> ELSE Head(ss) \o Concat(Tail(ss))

Reverse(s) == [i \in 1..Len(s) |-> s[Len(s) + 1 - i]]

\* Mutant: the levels are concatenated from the goal level down.
FlattenChosenBackward(by_level) == Dedupe(Concat(Reverse(by_level)), <<>>)

FlattenChosen(by_level) == Dedupe(Concat(by_level), <<>>)

NoPlan == [none |-> TRUE, flat |-> <<>>]

\* Lines 282-291: pick the goal level, or return None.
FindGoalLevel ==
    /\ pc = "find"
    /\ LET lwg == LevelWithGoal(literal_levels, goal)
       IN /\ level_with_goal' = lwg
          /\ IF lwg = -1
             THEN /\ gp_plan' = NoPlan
                  /\ pc' = "returned"
                  /\ UNCHANGED <<needed, chosen_actions_by_level, lvl>>
             ELSE /\ needed' = goal
                  /\ chosen_actions_by_level' = [i \in 1..lwg |-> <<>>]
                  /\ lvl' = lwg - 1
                  /\ pc' = IF lwg = 0 THEN "flatten" ELSE "select"
                  /\ UNCHANGED gp_plan
    /\ UNCHANGED <<tutorVars, inputVars, graphVars, simVars, popVars>>

\* One iteration of the backward loop (lines 293-318).
SelectLevel ==
    /\ pc = "select"
    /\ LET sel == SelectAtLevel(action_levels[lvl + 1], action_mutex_levels[lvl + 1], needed)
       IN /\ needed' = sel.needed
          /\ chosen_actions_by_level' =
                 [chosen_actions_by_level EXCEPT ![lvl + 1] = Names(sel.chosen)]
    /\ lvl' = lvl - 1
    /\ pc' = IF lvl = 0 THEN "flatten" ELSE "select"
    /\ UNCHANGED <<tutorVars, inputVars, graphVars, simVars, popVars, level_with_goal, gp_plan>>

\* Lines 319-325.
Flatten ==
    /\ pc = "flatten"
    /\ gp_plan' = [none |-> FALSE, flat |-> FlattenChosen(chosen_actions_by_level)]
    /\ pc' = "returned"
    /\ UNCHANGED <<tutorVars, inputVars, graphVars, simVars, popVars, level_with_goal, needed,
                   chosen_actions_by_level, lvl>>

----------------------------------------------------------------------------
(* simulate_plan                                                           *)

NoError == [step |-> 0, kind |-> "None"]

NotReturned == [returned |-> FALSE, ok |-> FALSE, err |-> NoError]

Known(acts, aname) == \E k \in 1..Len(acts) : acts[k].name = aname

\* name2act is a dict comprehension: the last action of a name wins.
Name2Act(acts, aname) ==
    acts[MaxOf({k \in 1..Len(acts) : acts[k].name = aname})]

\* Mutant: the add effects are applied before the delete effects.
ApplyAddFirst(st, a) == (st \cup a.add) \ a.del

Apply(st, a) == (st \ a.del) \cup a.add

\* Mutant: steps are numbered from 0.
StepNumberFromZero(i) == i

\* enumerate(plan, start=1): the number of the plan entry after i applied ones.
StepNumber(i) == i + 1

\* The caller in __main__ runs the simulator on a plan that is not None.
MainSimulate ==
    /\ pc = "returned"
    /\ ~gp_plan.none
    /\ plan' = gp_plan.flat
    /\ state' = initial
    /\ sim_i' = 0
    /\ sim_ret' = NotReturned
    /\ pc' = "simulate"
    /\ UNCHANGED <<tutorVars, inputVars, graphVars, extractVars, popVars, lvl>>

\* One iteration of the simulator's loop, or its final return.
SimStep ==
    /\ pc = "simulate"
    /\ IF sim_i = Len(plan)
       THEN /\ sim_ret' = [returned |-> TRUE, ok |-> TRUE, err |-> NoError]
            /\ pc' = "done"
            /\ UNCHANGED <<state, sim_i>>
       ELSE IF ~Known(actions, plan[sim_i + 1])
       THEN /\ sim_ret' = [returned |-> TRUE, ok |-> FALSE,
                           err |-> [step |-> StepNumber(sim_i), kind |-> "not found"]]
            /\ pc' = "done"
            /\ UNCHANGED <<state, sim_i>>
       ELSE IF ~(Name2Act(actions, plan[sim_i + 1]).pre \subseteq state)
       THEN /\ sim_ret' = [returned |-> TRUE, ok |-> FALSE,
                           err |-> [step |-> StepNumber(sim_i),
                                    kind |-> "preconditions not satisfied"]]
            /\ pc' = "done"
            /\ UNCHANGED <<state, sim_i>>
       ELSE /\ state' = Apply(state, Name2Act(actions, plan[sim_i + 1]))
            /\ sim_i' = sim_i + 1
            /\ UNCHANGED <<sim_ret, pc>>
    /\ UNCHANGED <<tutorVars, inputVars, graphVars, extractVars, popVars, lvl, plan>>

----------------------------------------------------------------------------
(* POPPlanner.plan                                                         *)

Step(name, pre, add, delete) == [name |-> name, pre |-> pre, add |-> add, del |-> delete]

NoResult == [returned |-> FALSE, none |-> FALSE, linearization |-> <<>>, causal_links |-> <<>>]

NotPopped == [has |-> FALSE, consumer_idx |-> 0, lit |-> ""]

PopIdle ==
    /\ max_iters = 0
    /\ steps = <<>>
    /\ order = {}
    /\ causal_links = <<>>
    /\ open_conditions = <<>>
    /\ iter_count = 0
    /\ popped = NotPopped
    /\ indeg = <<>>
    /\ q = <<>>
    /\ topo = <<>>
    /\ pop_ret = NoResult

\* All orders in which the elements of a set can be iterated.
RECURSIVE Perms(_)
Perms(S) ==
    IF S = {} THEN {<<>>}
    ELSE UNION {{<<x>> \o rest : rest \in Perms(S \ {x})} : x \in S}

\* Mutant: the search for an existing producer skips Start.
ExistingProducerSkipStart(stps, lit) ==
    IF \E idx \in 1..(Len(stps) - 1) : lit \in stps[idx + 1].add
    THEN MinOf({idx \in 1..(Len(stps) - 1) : lit \in stps[idx + 1].add})
    ELSE -1

\* Lines 373-377: the lowest step index whose add set holds lit, -1 for None.
ExistingProducer(stps, lit) ==
    IF \E idx \in 0..(Len(stps) - 1) : lit \in stps[idx + 1].add
    THEN MinOf({idx \in 0..(Len(stps) - 1) : lit \in stps[idx + 1].add})
    ELSE -1

\* Mutant: the last declared action adding lit is taken.
FirstAdderLast(acts, lit) ==
    IF \E k \in 1..Len(acts) : lit \in acts[k].add
    THEN MaxOf({k \in 1..Len(acts) : lit \in acts[k].add})
    ELSE 0

\* Lines 380-384: position of the first declared action adding lit, 0 for None.
FirstAdder(acts, lit) ==
    IF \E k \in 1..Len(acts) : lit \in acts[k].add
    THEN MinOf({k \in 1..Len(acts) : lit \in acts[k].add})
    ELSE 0

\* Mutant: every precondition of the producer is enqueued.
UnsatisfiedAll(stps, ord, producer_idx) == stps[producer_idx + 1].pre

\* Lines 394-401: the preconditions of the producer that no step ordered
\* before it adds.
Unsatisfied(stps, ord, producer_idx) ==
    {pre \in stps[producer_idx + 1].pre :
        ~\E sid \in 0..(Len(stps) - 1) :
            pre \in stps[sid + 1].add /\ <<sid, producer_idx>> \in ord}

\* Mutant: the ordering of the producer before Finish is left out.
OrderWithLinkNoFinish(ord, producer_idx, consumer_idx) ==
    ord \cup {<<producer_idx, consumer_idx>>, <<0, producer_idx>>}

\* Lines 388-390: the three ordering constraints added with a causal link.
OrderWithLink(ord, producer_idx, consumer_idx) ==
    ord \cup {<<producer_idx, consumer_idx>>, <<0, producer_idx>>, <<producer_idx, 1>>}

\* Mutant: the loop goes on while conditions are open, whatever the count.
WhileOpenUncapped(oc, ic, mi) == oc # <<>>

\* Line 369: the condition of the while loop.
WhileOpen(oc, ic, mi) == oc # <<>> /\ ic < mi

\* One iteration of the while loop (lines 369-401).  The preconditions of
\* the producer are a set: they are enqueued in any iteration order.
PopIterate ==
    /\ pc = "pop"
    /\ WhileOpen(open_conditions, iter_count, max_iters)
    /\ iter_count' = iter_count + 1
    /\ LET consumer_idx == Head(open_conditions)[1]
           lit == Head(open_conditions)[2]
           existing == ExistingProducer(steps, lit)
           k == FirstAdder(actions, lit)
       IN /\ popped' = [has |-> TRUE, consumer_idx |-> consumer_idx, lit |-> lit]
          /\ IF existing = -1 /\ k = 0
             THEN /\ pop_ret' = [NoResult EXCEPT !.returned = TRUE, !.none = TRUE]
                  /\ pc' = "pop_returned"
                  /\ open_conditions' = Tail(open_conditions)
                  /\ UNCHANGED <<steps, order, causal_links>>
             ELSE LET steps2 == IF existing = -1
                                THEN Append(steps, Step(actions[k].name, actions[k].pre,
                                                        actions[k].add, actions[k].del))
                                ELSE steps
                      producer_idx == IF existing = -1 THEN Len(steps) ELSE existing
                      order2 == OrderWithLink(order, producer_idx, consumer_idx)
                  IN /\ steps' = steps2
                     /\ order' = order2
                     /\ causal_links' =
                            Append(causal_links, <<producer_idx, lit, consumer_idx>>)
                     /\ \E pres \in Perms(Unsatisfied(steps2, order2, producer_idx)) :
                            open_conditions' =
                                Tail(open_conditions) \o
                                [i \in 1..Len(pres) |-> <<producer_idx, pres[i]>>]
                     /\ UNCHANGED <<pop_ret, pc>>
    /\ UNCHANGED <<tutorVars, inputVars, graphVars, extractVars, simVars, lvl, max_iters, indeg, q, topo>>

\* Mutant: self-loops of order are counted as edges.
OrderEdgesWithSelfLoops(ord) == ord

\* Lines 407-410: the edges of order that enter adj and indeg.
OrderEdges(ord) == {e \in ord : e[1] # e[2]}

RECURSIVE Ascending(_)
Ascending(S) ==
    IF S = {} THEN <<>> ELSE <<MinOf(S)>> \o Ascending(S \ {MinOf(S)})

\* Lines 403-411, entered when the while condition fails: in-degrees and
\* the initial deque.  Index i of the Python lists is element i+1 of indeg.
PopBuildGraph ==
    /\ pc = "pop"
    /\ ~WhileOpen(open_conditions, iter_count, max_iters)
    /\ indeg' = [i \in 1..Len(steps) |->
                    Cardinality({e \in OrderEdges(order) : e[2] = i - 1})]
    /\ q' = Ascending({i \in 0..(Len(steps) - 1) :
                          Cardinality({e \in OrderEdges(order) : e[2] = i}) = 0})
    /\ topo' = <<>>
    /\ pc' = "kahn"
    /\ UNCHANGED <<tutorVars, inputVars, graphVars, extractVars, simVars, lvl, max_iters, steps, order,
                   causal_links, open_conditions, iter_count, popped, pop_ret>>

\* One iteration of Kahn's loop (lines 413-419).  adj[u] was filled while
\* iterating the set order: its successors come in any order.
KahnStep ==
    /\ pc = "kahn"
    /\ q # <<>>
    /\ LET u == Head(q)
           succ == {e[2] : e \in {d \in OrderEdges(order) : d[1] = u}}
       IN /\ topo' = Append(topo, u)
          /\ indeg' = [i \in 1..Len(indeg) |->
                          IF (i - 1) \in succ THEN indeg[i] - 1 ELSE indeg[i]]
          /\ \E ready \in Perms({v \in succ : indeg[v + 1] = 1}) :
                 q' = Tail(q) \o ready
    /\ UNCHANGED <<tutorVars, inputVars, graphVars, extractVars, simVars, lvl, max_iters, steps, order,
                   causal_links, open_conditions, iter_count, popped, pop_ret, pc>>

\* Mutant: the topological order is read backwards.
LinearizationBackwards(stps, tp) ==
    LET kept == SelectSeq(tp, LAMBDA i : stps[i + 1].name \notin {"Start", "Finish"})
    IN [k \in 1..Len(kept) |-> stps[kept[Len(kept) + 1 - k] + 1].name]

\* Line 420.
Linearization(stps, tp) ==
    LET kept == SelectSeq(tp, LAMBDA i : stps[i + 1].name \notin {"Start", "Finish"})
    IN [k \in 1..Len(kept) |-> stps[kept[k] + 1].name]

\* Mutant: the recorded links are returned as they are.
seen_causalAll(links) == links

\* Lines 421-427: the causal links without repetitions, first occurrences kept.
seen_causal(links) == Dedupe(links, <<>>)

\* Lines 420-433.
PopReturn ==
    /\ pc = "kahn"
    /\ q = <<>>
    /\ pop_ret' = [returned |-> TRUE, none |-> FALSE,
                   linearization |-> Linearization(steps, topo),
                   causal_links |-> seen_causal(causal_links)]
    /\ pc' = "pop_returned"
    /\ UNCHANGED <<tutorVars, inputVars, graphVars, extractVars, simVars, lvl, max_iters, steps, order,
                   causal_links, open_conditions, iter_count, popped, indeg, q, topo>>

----------------------------------------------------------------------------
(* The GraphPlan pipeline of __main__: build, extract, simulate            *)

GraphInit ==
    /\ lvl = 0
    /\ literal_levels = <<initial>>
    /\ action_levels = <<>>
    /\ action_mutex_levels = <<>>
    /\ literal_mutex_levels = <<{}>>

ExtractInit ==
    /\ level_with_goal = -1
    /\ needed = {}
    /\ chosen_actions_by_level = <<>>
    /\ gp_plan = NoPlan

SimIdle ==
    /\ plan = <<>>
    /\ state = {}
    /\ sim_i = 0
    /\ sim_ret = NotReturned

Init ==
    /\ TutorIdle
    /\ \/ /\ actions \in SmallDomains
          /\ initial \in SmallInitials
          /\ goal \in SmallGoals
          /\ max_levels \in 0..MaxLevels
       \/ /\ actions = REF_ACTIONS
          /\ initial = RefInitial
          /\ goal = RefGoal
          /\ max_levels = RefMaxLevels
    /\ pc = (IF max_levels = 0 THEN "find" ELSE "build")
    /\ GraphInit
    /\ ExtractInit
    /\ SimIdle
    /\ PopIdle

Next ==
    \/ ExpandLevel
    \/ FindGoalLevel
    \/ SelectLevel
    \/ Flatten
    \/ MainSimulate
    \/ SimStep

Spec == Init /\ [][Next]_vars

----------------------------------------------------------------------------
(* The POP part of __main__                                                *)

\* Iteration budgets tried on the small domains: one that runs out, one that does not.
ShortIters == 2
MaxIters == 10
RefMaxIters == 5000

\* Lines 357-363.  goal_literals is iterated to seed the queue: any order.
InitPOP ==
    /\ TutorIdle
    /\ \/ /\ actions \in SmallDomains
          /\ initial \in SmallInitials
          /\ goal \in SmallGoals
          /\ max_iters \in {ShortIters, MaxIters}
       \/ /\ actions = REF_ACTIONS
          /\ initial = RefInitial
          /\ goal = RefGoal
          /\ max_iters = RefMaxIters
    /\ max_levels = 0
    /\ GraphInit
    /\ ExtractInit
    /\ SimIdle
    /\ steps = <<Step("Start", {}, initial, {}), Step("Finish", goal, {}, {})>>
    /\ order = {<<0, 1>>}
    /\ causal_links = <<>>
    /\ \E goal_literals \in Perms(goal) :
           open_conditions = [i \in 1..Len(goal_literals) |-> <<1, goal_literals[i]>>]
    /\ iter_count = 0
    /\ popped = NotPopped
    /\ indeg = <<>>
    /\ q = <<>>
    /\ topo = <<>>
    /\ pop_ret = NoResult
    /\ pc = "pop"

\* Lines 649-651: __main__ validates the linearization of a result that is
\* not None by simulation.
MainSimulatePop ==
    /\ pc = "pop_returned"
    /\ ~pop_ret.none
    /\ plan' = pop_ret.linearization
    /\ state' = initial
    /\ sim_i' = 0
    /\ sim_ret' = NotReturned
    /\ pc' = "simulate"
    /\ UNCHANGED <<tutorVars, inputVars, graphVars, extractVars, popVars, lvl>>

NextPOP ==
    \/ PopIterate
    \/ PopBuildGraph
    \/ KahnStep
    \/ PopReturn
    \/ MainSimulatePop
    \/ SimStep

SpecPOP == InitPOP /\ [][NextPOP]_vars

----------------------------------------------------------------------------
(* simulate_plan on arbitrary plans, unknown action names included         *)

MaxPlanLen == 3

PlanNames(acts) == SeqRange(Names(acts)) \cup {"Unknown"}

Plans(acts) == UNION {[1..n -> PlanNames(acts)] : n \in 0..MaxPlanLen}

InitSim ==
    /\ TutorIdle
    /\ actions \in SmallDomains
    /\ initial \in SmallInitials
    /\ goal = {}
    /\ max_levels = 1
    /\ GraphInit
    /\ ExtractInit
    /\ plan \in Plans(actions)
    /\ state = initial
    /\ sim_i = 0
    /\ sim_ret = NotReturned
    /\ PopIdle
    /\ pc = "simulate"

NextSim == SimStep

SpecSim == InitSim /\ [][NextSim]_vars

----------------------------------------------------------------------------
(* StudentSimulator (Module4_RF.py).  Mastery, frustration, engagement,    *)
(* difficulties and jitter are counted in hundredths: 0.30 is 30.          *)

min(a, b) == IF a <= b THEN a ELSE b
max(a, b) == IF a >= b THEN a ELSE b

\* Line 86: the tutor's action list, in declaration order.
TUTOR_ACTIONS == <<"increase_difficulty", "decrease_difficulty", "switch_style",
                   "offer_revision">>

\* Lines 33-69.  n1 and n2 are the values of the first and the second call
\* of noise() made by the branch taken (a branch may use fewer).
respond(m, f, e, action, difficulty, n1, n2) ==
    IF action = "increase_difficulty"
    THEN IF difficulty > m + 20
         THEN [mastery_level |-> m,
               frustration |-> min(100, f + 12 + n1),
               engagement |-> max(0, e - 8 + n2),
               response |-> "frustrated"]
         ELSE [mastery_level |-> min(100, m + 5 + n1),
               frustration |-> f,
               engagement |-> min(100, e + 2 + n2),
               response |-> "success"]
    ELSE IF action = "decrease_difficulty"
    THEN IF difficulty < m - 20
         THEN [mastery_level |-> m,
               frustration |-> f,
               engagement |-> max(0, e - 6 + n1),
               response |-> "bored"]
         ELSE [mastery_level |-> min(100, m + 3 + n1),
               frustration |-> max(0, f - 5 + n2),
               engagement |-> e,
               response |-> "success"]
    ELSE IF action = "switch_style"
    THEN [mastery_level |-> m,
          frustration |-> max(0, f - 5 + n2),
          engagement |-> min(100, e + 10 + n1),
          response |-> "engaged"]
    ELSE IF action = "offer_revision"
    THEN [mastery_level |-> min(100, m + 2 + n1),
          frustration |-> max(0, f - 10 + n2),
          engagement |-> e,
          response |-> "improved"]
    ELSE [mastery_level |-> m, frustration |-> f, engagement |-> e, response |-> "neutral"]

\* Number of free respond calls followed, and the largest jitter drawn
\* (three standard deviations of the noise of line 37).
MaxResponds == 3
MaxJitter == 3

\* Longest run of too-hard questions a followed student has been through.
MaxDrill == 9

Jitters == {-MaxJitter, 0, MaxJitter}
Difficulties == {0, 50, 100}
RespondActions == SeqRange(TUTOR_ACTIONS) \cup {"pause"}

PlannerIdle ==
    /\ actions = <<>>
    /\ initial = {}
    /\ goal = {}
    /\ max_levels = 0
    /\ GraphInit
    /\ ExtractInit
    /\ SimIdle
    /\ PopIdle

\* The difficulties respond is called with: the easiest and the hardest
\* question.  Against them the comparisons of lines 41 and 51 are never a
\* tie for a mastery the followed calls can reach, so the rounding of the
\* doubles (0.3 + 0.03 - 0.03 is 0.29999999999999993) cannot pick the branch.
RespondDifficulties == {0, 100}

\* One call student.respond(action, difficulty).
Respond ==
    /\ pc = "student"
    /\ calls < MaxResponds
    /\ \E action \in RespondActions, difficulty \in RespondDifficulties,
          n1 \in Jitters, n2 \in Jitters :
           LET r == respond(mastery_level, frustration, engagement, action, difficulty, n1, n2)
           IN /\ mastery_level' = r.mastery_level
              /\ frustration' = r.frustration
              /\ engagement' = r.engagement
              /\ response' = r.response
    /\ calls' = calls + 1
    /\ UNCHANGED <<plannerVars, learnerVars, call, pc>>

\* The student after k calls respond('increase_difficulty', 1.0) with zero
\* jitter, starting from the defaults of lines 28-30.
RECURSIVE Drilled(_)
Drilled(k) ==
    IF k = 0
    THEN [mastery_level |-> 30, frustration |-> 20, engagement |-> 70, response |-> "none"]
    ELSE LET st == Drilled(k - 1)
         IN respond(st.mastery_level, st.frustration, st.engagement,
                    "increase_difficulty", 100, 0, 0)

\* A student constructed with the defaults and taken through a run of
\* too-hard questions; the calls that follow are free.
InitStudent ==
    /\ PlannerIdle
    /\ \E k \in 0..MaxDrill :
           LET st == Drilled(k)
           IN /\ mastery_level = st.mastery_level
              /\ frustration = st.frustration
              /\ engagement = st.engagement
              /\ response = st.response
    /\ LearnerInit
    /\ calls = 0
    /\ call = NoCall
    /\ pc = "student"

NextStudent == Respond

SpecStudent == InitStudent /\ [][NextStudent]_vars

----------------------------------------------------------------------------
(* QLearningTutor: the table (Module4_RF.py).  Q-values, rewards and the   *)
(* hyperparameters are counted in ten-thousandths: 0.95 is 9500.  A        *)
(* product of two such numbers is brought back to the unit by a floored    *)
(* division, the model's rounding.                                         *)

\* Line 80: learning_rate=0.1 and discount=0.95.
lr == 1000
gamma == 9500

TutorActionSet == SeqRange(TUTOR_ACTIONS)

ZeroRow == [a \in TutorActionSet |-> 0]

\* Mutant: a new row starts at 1.0 for every action.
ensure_stateOptimistic(qt, st) ==
    IF st \in DOMAIN qt THEN qt ELSE qt @@ (st :> [a \in TutorActionSet |-> 10000])

\* Lines 101-103.
ensure_state(qt, st) == IF st \in DOMAIN qt THEN qt ELSE qt @@ (st :> ZeroRow)

\* Mutant: the maximum is taken over the row of state, not of next_state.
updateMaxOfState(qt, st, action, reward, next_state) ==
    LET t == ensure_state(ensure_state(qt, st), next_state)
        current_q == t[st][action]
        max_next_q == MaxOf({t[st][a] : a \in TutorActionSet})
        new_q == current_q
                 + (lr * (reward + (gamma * max_next_q) \div 10000 - current_q)) \div 10000
    IN [t EXCEPT ![st][action] = new_q]

\* Lines 116-122.  Every row of the table holds the four actions, so the
\* guard of line 120 takes its first branch.
update(qt, st, action, reward, next_state) ==
    LET t == ensure_state(ensure_state(qt, st), next_state)
        current_q == t[st][action]
        max_next_q == MaxOf({t[next_state][a] : a \in TutorActionSet})
        new_q == current_q
                 + (lr * (reward + (gamma * max_next_q) \div 10000 - current_q)) \div 10000
    IN [t EXCEPT ![st][action] = new_q]

\* Lines 106-113: what choose_action may return on a table that holds st.
\* The exploring branch returns any action, the greedy one any best action.
choose_action(qt, st) ==
    LET qvals == qt[st]
        max_val == MaxOf({qvals[a] : a \in TutorActionSet})
        best == {a \in TutorActionSet : qvals[a] = max_val}
    IN TutorActionSet \cup best

\* Calls followed on one tutor, and the inputs they draw from.
MaxCalls == 3

QStates == {<<1, 1, 3>>, <<1, 1, 4>>}
UpdateActions == {"increase_difficulty", "offer_revision"}
Rewards == {-120000, 100000}

EnsureState ==
    /\ pc = "learn"
    /\ calls < MaxCalls
    /\ \E st \in QStates :
           /\ q_table' = ensure_state(q_table, st)
           /\ call' = [op |-> "ensure_state", state |-> st]
           /\ touched' = touched \cup {st}
    /\ calls' = calls + 1
    /\ UNCHANGED <<plannerVars, studentVars, n_buckets, snapshot, targeted, pc>>

ChooseAction ==
    /\ pc = "learn"
    /\ calls < MaxCalls
    /\ \E st \in QStates :
           /\ q_table' = ensure_state(q_table, st)
           /\ \E a \in choose_action(q_table', st) :
                  call' = [op |-> "choose_action", state |-> st, ret |-> a]
           /\ touched' = touched \cup {st}
    /\ calls' = calls + 1
    /\ UNCHANGED <<plannerVars, studentVars, n_buckets, snapshot, targeted, pc>>

Update ==
    /\ pc = "learn"
    /\ calls < MaxCalls
    /\ \E st \in QStates, action \in UpdateActions, reward \in Rewards, next_state \in QStates :
           /\ q_table' = update(q_table, st, action, reward, next_state)
           /\ call' = [op |-> "update", state |-> st, action |-> action,
                       reward |-> reward, next_state |-> next_state]
           /\ touched' = touched \cup {st, next_state}
           /\ targeted' = targeted \cup {<<st, action>>}
    /\ calls' = calls + 1
    /\ UNCHANGED <<plannerVars, studentVars, n_buckets, snapshot, pc>>

InitLearn ==
    /\ PlannerIdle
    /\ TutorIdle
    /\ pc = "learn"

NextLearn ==
    \/ EnsureState
    \/ ChooseAction
    \/ Update

SpecLearn == InitLearn /\ [][NextLearn]_vars

----------------------------------------------------------------------------
(* QLearningTutor: the snapshot file (Module4_RF.py).  The file is the     *)
(* JSON object as a list of <<key text, row>> in file order, the row a     *)
(* function from action name to the text of the number.                    *)

Digits == <<"0", "1", "2", "3", "4", "5", "6", "7", "8", "9">>
DigitSet == SeqRange(Digits)
DigitVal(c) == CHOOSE d \in 0..9 : Digits[d + 1] = c

Char(s, i) == SubSeq(s, i, i)

\* str(int) for a natural number.
RECURSIVE NatStr(_)
NatStr(n) == IF n < 10 THEN Digits[n + 1] ELSE NatStr(n \div 10) \o Digits[(n % 10) + 1]

\* Value of a string of digits, most significant first.
RECURSIVE NatVal(_)
NatVal(s) ==
    IF s = "" THEN 0 ELSE NatVal(SubSeq(s, 1, Len(s) - 1)) * 10 + DigitVal(Char(s, Len(s)))

\* Line 147: str(k) of a tuple of three ints.
str_key(k) ==
    LET str_int(n) == IF n < 0 THEN "-" \o NatStr(-n) ELSE NatStr(n)
    IN "(" \o str_int(k[1]) \o ", " \o str_int(k[2]) \o ", " \o str_int(k[3]) \o ")"

\* str.lstrip / str.rstrip / str.strip with a set of characters.
RECURSIVE lstrip(_, _)
lstrip(s, chars) ==
    IF s # "" /\ Char(s, 1) \in chars THEN lstrip(SubSeq(s, 2, Len(s)), chars) ELSE s

RECURSIVE rstrip(_, _)
rstrip(s, chars) ==
    IF s # "" /\ Char(s, Len(s)) \in chars THEN rstrip(SubSeq(s, 1, Len(s) - 1), chars) ELSE s

strip(s, chars) == rstrip(lstrip(s, chars), chars)

\* str.split(sep) for a one-character separator.
RECURSIVE split(_, _)
split(s, sep) ==
    IF \E i \in 1..Len(s) : Char(s, i) = sep
    THEN LET i == MinOf({j \in 1..Len(s) : Char(s, j) = sep})
         IN <<SubSeq(s, 1, i - 1)>> \o split(SubSeq(s, i + 1, Len(s)), sep)
    ELSE <<s>>

\* Mutant: int() that accepts no sign.
int_parseUnsigned(x) ==
    LET y == strip(x, {" "})
        ok == y # "" /\ \A i \in 1..Len(y) : Char(y, i) \in DigitSet
    IN [ok |-> ok, val |-> IF ok THEN NatVal(y) ELSE 0]

\* Line 162: int(x.strip()) on text made of digits, signs, blanks, letters,
\* dots and brackets; ok is FALSE where int() raises ValueError.
int_parse(x) ==
    LET y == strip(x, {" "})
        signed == y # "" /\ Char(y, 1) \in {"+", "-"}
        body == IF signed THEN SubSeq(y, 2, Len(y)) ELSE y
        ok == body # "" /\ \A i \in 1..Len(body) : Char(body, i) \in DigitSet
    IN [ok |-> ok,
        val |-> IF ~ok THEN 0 ELSE IF signed /\ Char(y, 1) = "-" THEN -NatVal(body)
                ELSE NatVal(body)]

\* Lines 161-166: the key of an entry; ok is FALSE where the entry is skipped.
parse_key(k_str) ==
    LET parts == split(strip(k_str, {"(", ")", " "}), ",")
        ints == [i \in 1..Len(parts) |-> int_parse(parts[i])]
        ok == (\A i \in 1..Len(parts) : ints[i].ok) /\ Len(parts) = 3
    IN [ok |-> ok, key |-> IF ok THEN [i \in 1..3 |-> ints[i].val] ELSE <<>>]

\* json.dump of a float that is a whole number of ten-thousandths: the
\* shortest decimal text, with at least one digit after the point.
float_repr(v) ==
    LET a == IF v < 0 THEN -v ELSE v
        fp == a % 10000
        four == Digits[(fp \div 1000) + 1] \o Digits[((fp \div 100) % 10) + 1]
                \o Digits[((fp \div 10) % 10) + 1] \o Digits[(fp % 10) + 1]
        frac == IF rstrip(four, {"0"}) = "" THEN "0" ELSE rstrip(four, {"0"})
    IN (IF v < 0 THEN "-" ELSE "") \o NatStr(a \div 10000) \o "." \o frac

\* json.load of a number text with at most four digits after the point.
float_parse(t) ==
    LET neg == t # "" /\ Char(t, 1) = "-"
        parts == split(IF neg THEN SubSeq(t, 2, Len(t)) ELSE t, ".")
        frac == IF Len(parts) = 1 THEN "" ELSE parts[2]
        padded == frac \o SubSeq("0000", 1, 4 - Len(frac))
        a == NatVal(parts[1]) * 10000 + NatVal(padded)
    IN IF neg THEN -a ELSE a

row_dump(row) == [a \in DOMAIN row |-> float_repr(row[a])]
row_load(texts) == [a \in DOMAIN texts |-> float_parse(texts[a])]

\* Lines 146-149: the entries written for the keys taken in the order ord.
save_q_table(qt, ord) ==
    [exists |-> TRUE,
     entries |-> [i \in 1..Len(ord) |-> <<str_key(ord[i]), row_dump(qt[ord[i]])>>]]

\* Mutant: the first entry that does not parse ends the loop.
RECURSIVE load_entriesStopAtBad(_, _)
load_entriesStopAtBad(entries, new_q) ==
    IF entries = <<>> THEN new_q
    ELSE LET p == parse_key(Head(entries)[1])
         IN IF p.ok
            THEN load_entriesStopAtBad(Tail(entries),
                     [k \in DOMAIN new_q \cup {p.key} |->
                         IF k = p.key THEN row_load(Head(entries)[2]) ELSE new_q[k]])
            ELSE new_q

\* Lines 158-166: the loop over raw.items(), a later entry with the same
\* key replacing an earlier one.
RECURSIVE load_entries(_, _)
load_entries(entries, new_q) ==
    IF entries = <<>> THEN new_q
    ELSE LET p == parse_key(Head(entries)[1])
         IN load_entries(Tail(entries),
                IF p.ok
                THEN [k \in DOMAIN new_q \cup {p.key} |->
                         IF k = p.key THEN row_load(Head(entries)[2]) ELSE new_q[k]]
                ELSE new_q)

\* Lines 151-167: the table after load_q_table.
load_q_table(file, qt) == IF ~file.exists THEN qt ELSE load_entries(file.entries, <<>>)

\* Tables and files followed.
MaxRows == 2
MaxEntries == 3

KeyPool == {<<0, 0, 0>>, <<1, 2, 3>>, <<-1, 10, 4>>, <<4, 4, 4>>}

RowOf(vals) == [a \in TutorActionSet |->
                   vals[CHOOSE i \in 1..Len(TUTOR_ACTIONS) : TUTOR_ACTIONS[i] = a]]

RowPool == {ZeroRow, RowOf(<<10000, -5, 9500, -120000>>), RowOf(<<123456, 0, -10000, 1>>)}

StoredTables ==
    UNION {[K -> RowPool] : K \in {S \in SUBSET KeyPool : Cardinality(S) <= MaxRows}}

KeyTexts == {"(1, 2, 3)", "(1,2,3)", "(0, 0, 0)", "(-1, 10, 4)", "(1, 2)", "(1, 2, 3, 4)",
             "(a, 2, 3)", "", "(1, 2, 3.5)"}

RowTexts == {RowOf(<<"0.0", "0.0", "0.0", "0.0">>), RowOf(<<"1.0", "-0.0005", "0.95", "-12.0">>)}

\* Files with pairwise different key texts, as in a JSON object.
Snapshots ==
    {[exists |-> TRUE, entries |-> es] :
         es \in UNION {{s \in [1..n -> KeyTexts \X RowTexts] :
                           \A i, j \in 1..n : i # j => s[i][1] # s[j][1]} : n \in 0..MaxEntries}}

SaveQTable ==
    /\ pc = "store"
    /\ \E ord \in Perms(DOMAIN q_table) : snapshot' = save_q_table(q_table, ord)
    /\ call' = [op |-> "save_q_table", table |-> q_table]
    /\ UNCHANGED <<plannerVars, studentVars, q_table, n_buckets, touched, targeted, calls, pc>>

LoadQTable ==
    /\ pc = "store"
    /\ q_table' = load_q_table(snapshot, q_table)
    /\ call' = [op |-> "load_q_table", file |-> snapshot,
                after_save |-> call.op = "save_q_table",
                saved |-> IF call.op = "save_q_table" THEN call.table ELSE <<>>]
    /\ UNCHANGED <<plannerVars, studentVars, snapshot, n_buckets, touched, targeted, calls, pc>>

InitStore ==
    /\ PlannerIdle
    /\ StudentInit
    /\ \/ q_table \in StoredTables /\ snapshot = NoFile
       \/ q_table = <<>> /\ snapshot \in Snapshots
    /\ n_buckets = DefaultBuckets
    /\ touched = {}
    /\ targeted = {}
    /\ calls = 0
    /\ call = NoCall
    /\ pc = "store"

NextStore ==
    \/ SaveQTable
    \/ LoadQTable

SpecStore == InitStore /\ [][NextStore]_vars

----------------------------------------------------------------------------
(* QLearningTutor.discretize_state (Module4_RF.py).  Inputs are counted    *)
(* in ten-thousandths: 0.9999 is 9999.                                     *)

\* np.clip
clip(x, lo, hi) == min(max(x, lo), hi)

\* Mutant: the input is not clipped.
bucketNoClip(x, b) == (x * b) \div 10000

\* Lines 96-98: int(np.clip(x, 0.0, 0.9999) * b).
bucket(x, b) == (clip(x, 0, 9999) * b) \div 10000

\* Lines 93-99.
discretize_state(b, m, f, e) == <<bucket(m, b), bucket(f, b), bucket(e, b)>>

\* Largest of the small tables followed, and the number of equal steps the inputs
\* divide [0, 1] into.
MaxBuckets == 6
GridSteps == 10

\* Line 85 takes any integer for n_buckets.  Followed besides the small
\* tables: no bucket at all, the largest table whose top bucket 0.9999 still
\* reaches (0.9999 * 10000 = 9999), and the first one it does not.
ManyBuckets == {0, 10000, 10001}

Grid == {(k * 10000) \div GridSteps : k \in 0..GridSteps} \cup {1999, 9998, 9999}

Discretize ==
    /\ pc = "discretize"
    /\ \E m \in Grid, f \in Grid, e \in Grid :
           call' = [op |-> "discretize_state", args |-> <<m, f, e>>,
                    ret |-> discretize_state(n_buckets, m, f, e)]
    /\ pc' = "discretized"
    /\ UNCHANGED <<plannerVars, studentVars, learnerVars, calls>>

InitDiscretize ==
    /\ PlannerIdle
    /\ StudentInit
    /\ q_table = <<>>
    /\ n_buckets \in (1..MaxBuckets) \cup ManyBuckets
    /\ snapshot = NoFile
    /\ touched = {}
    /\ targeted = {}
    /\ calls = 0
    /\ call = NoCall
    /\ pc = "discretize"

NextDiscretize == Discretize

SpecDiscretize == InitDiscretize /\ [][NextDiscretize]_vars

----------------------------------------------------------------------------
(* The emotion estimators (evaluate.py, Module1_Bayesian.py,               *)
(* bayes_model.py).  Probabilities are counted in hundredths: 0.95 is 95.  *)
(* Time is counted in half seconds: 33.5 s is 67.                          *)

EMOTION_STATES == <<"highly_confident", "confident", "confused", "highly_confused",
                    "frustrated">>

\* evaluate.py lines 30-59: rows are emotion states, columns the 18
\* evidence combinations.
CPD_EMOTION_VALUES ==
    << <<95, 40, 85, 30, 70, 20, 80, 30, 75, 25, 60, 15, 60, 10, 40,  5, 10,  1>>,
       << 5, 30, 10, 35, 15, 30, 15, 40, 20, 40, 25, 30, 25, 30, 40, 25, 40,  5>>,
       << 0, 20,  5, 25, 10, 30,  5, 20,  5, 25, 10, 30, 10, 40, 15, 50, 30, 15>>,
       << 0, 10,  0,  8,  5, 10,  0,  5,  0,  8,  5, 15,  5, 15,  5, 15, 15, 35>>,
       << 0,  0,  0,  2,  0, 10,  0,  5,  0,  2,  0, 10,  0,  5,  0,  5,  5, 44>> >>

\* Module1_Bayesian.py lines 16-22.
CPD ==
    << <<95, 40, 85, 30, 70, 20, 80, 30, 75, 25, 60, 15, 60, 10, 40,  5, 10,  1>>,
       << 5, 30, 10, 35, 15, 30, 15, 40, 20, 40, 25, 30, 25, 30, 40, 25, 40,  5>>,
       << 0, 20,  5, 25, 10, 30,  5, 20,  5, 25, 10, 30, 10, 40, 15, 50, 30, 15>>,
       << 0, 10,  0,  8,  5, 10,  0,  5,  0,  8,  5, 15,  5, 15,  5, 15, 15, 35>>,
       << 0,  0,  0,  2,  0, 10,  0,  5,  0,  2,  0, 10,  0,  5,  0,  5,  5, 44>> >>

\* evaluate.py line 79.
c_state(correct) == IF correct THEN 0 ELSE 1

\* Mutant: the thresholds belong to the shorter class.
t_stateInclusive(time) == IF time <= 20 THEN 0 ELSE IF time <= 60 THEN 1 ELSE 2

\* evaluate.py lines 82-87: below 10 s, below 30 s, otherwise.
t_state(time) == IF time < 20 THEN 0 ELSE IF time < 60 THEN 1 ELSE 2

\* evaluate.py lines 91-92: feedback_map.get(feedback, 1).
f_state(feedback) ==
    IF feedback = "Too Easy" THEN 0
    ELSE IF feedback = "Just Right" THEN 1
    ELSE IF feedback = "Too Hard" THEN 2
    ELSE IF feedback = "Unclear Question" THEN 1
    ELSE 1

\* evaluate.py lines 100-102.
index_I(correct, time, feedback) ==
    c_state(correct) + 2 * t_state(time) + (2 * 3) * f_state(feedback)

\* Mutant: a row is read where a column is meant.
ColumnAsRow(tbl, index) == [r \in 1..Len(tbl) |-> tbl[(index % Len(tbl)) + 1][r]]

\* tbl[:, index]
Column(tbl, index) == [r \in 1..Len(tbl) |-> tbl[r][index + 1]]

\* np.argmax: the first of the largest entries, counted from 0.
argmax(values) ==
    MinOf({i \in 1..Len(values) : \A j \in 1..Len(values) : values[j] <= values[i]}) - 1

\* evaluate.py lines 67-114 (tbl = CPD_EMOTION_VALUES) and
\* Module1_Bayesian.py lines 28-72 (tbl = CPD).
evaluate_emotional_status(tbl, correct, time, feedback) ==
    LET index == index_I(correct, time, feedback)
        posterior_values == Column(tbl, index)
    IN [index |-> index, posterior |-> posterior_values,
        ret |-> EMOTION_STATES[argmax(posterior_values) + 1]]

\* bayes_model.py lines 18-24, 30-36, 42-48.
PRIORS == <<25, 30, 20, 15, 10>>
P_correct == << <<90, 10>>, <<80, 20>>, <<60, 40>>, <<40, 60>>, <<30, 70>> >>
P_feedback == << <<70, 25, 5>>, <<50, 40, 10>>, <<20, 50, 30>>, <<10, 40, 50>>, <<5, 30, 65>> >>

\* bayes_model.py lines 54-60: <<mean, stdev>> per emotion, in half seconds.
TIME_PARAMS == << <<10, 6>>, <<20, 10>>, <<36, 12>>, <<60, 16>>, <<80, 20>> >>

\* Natural logarithm of the integers the tables and TIME_PARAMS hold, in
\* millionths, rounded down: np.exp of line 68 is compared through it.
LnMicro(n) ==
    CASE n = 5 -> 1609437 [] n = 6 -> 1791759 [] n = 10 -> 2302585 [] n = 12 -> 2484906
      [] n = 15 -> 2708050 [] n = 16 -> 2772588 [] n = 20 -> 2995732
      [] n = 25 -> 3218875 [] n = 30 -> 3401197 [] n = 40 -> 3688879
      [] n = 50 -> 3912023 [] n = 60 -> 4094344 [] n = 65 -> 4174387
      [] n = 70 -> 4248495 [] n = 80 -> 4382026 [] n = 90 -> 4499809

\* bayes_model.py lines 98-103 with lines 65-68: the logarithm of
\* unnorm[i] in millionths, up to a term common to the five states, that is
\* ln(prior) + ln(P_correct) + ln(P_feedback) - ln(sigma)
\* - (time - mu)^2 / (2 sigma^2).  Each of the five terms is rounded down,
\* so the result is less than 3 above and less than 2 below the exact value.
LogUnnorm(i, correct, time, feedback) ==
    LET mu == TIME_PARAMS[i][1]
        sigma == TIME_PARAMS[i][2]
        dist == (time - mu) * (time - mu)
        two == 2 * sigma * sigma
    IN LnMicro(PRIORS[i]) + LnMicro(P_correct[i][c_state(correct) + 1])
       + LnMicro(P_feedback[i][f_state(feedback) + 1]) - LnMicro(sigma)
       - ((dist \div two) * 1000000 + ((dist % two) * 1000000) \div two)

\* bayes_model.py line 109: the states np.argmax(posterior) can select.  A
\* state is ruled out when another one is larger beyond the rounding of
\* LogUnnorm; states closer than that are both left possible.
MapCandidates(correct, time, feedback) ==
    {i \in 1..5 :
        \A j \in 1..5 :
            LogUnnorm(j, correct, time, feedback) - LogUnnorm(i, correct, time, feedback) < 5}

\* Evidence followed.
MaxTimeSteps == 12

Times == {5 * k : k \in 0..MaxTimeSteps} \cup {19, 59, 67, 90}
Feedbacks == {"Too Easy", "Just Right", "Too Hard", "Unclear Question", "No idea"}

Evaluate ==
    /\ pc = "estimate"
    /\ \E correct \in BOOLEAN, time \in Times, feedback \in Feedbacks :
           LET r == evaluate_emotional_status(CPD_EMOTION_VALUES, correct, time, feedback)
           IN call' = [op |-> "evaluate_emotional_status", correct |-> correct, time |-> time,
                       feedback |-> feedback, index |-> r.index,
                       posterior |-> r.posterior, ret |-> r.ret]
    /\ pc' = "estimated"
    /\ UNCHANGED <<plannerVars, studentVars, learnerVars, calls>>

EvaluateStepwise ==
    /\ pc = "estimate"
    /\ \E correct \in BOOLEAN, time \in Times, feedback \in Feedbacks :
           LET r == evaluate_emotional_status(CPD, correct, time, feedback)
           IN call' = [op |-> "evaluate_emotional_status_stepwise", correct |-> correct,
                       time |-> time, feedback |-> feedback, index |-> r.index,
                       posterior |-> r.posterior, ret |-> r.ret]
    /\ pc' = "estimated"
    /\ UNCHANGED <<plannerVars, studentVars, learnerVars, calls>>

\* bayes_model.py lines 73-111.
InferEmotion ==
    /\ pc = "estimate"
    /\ \E correct \in BOOLEAN, time \in Times, feedback \in Feedbacks :
           \E i \in MapCandidates(correct, time, feedback) :
               call' = [op |-> "infer_emotion", correct |-> correct, time |-> time,
                        feedback |-> feedback, ret |-> EMOTION_STATES[i]]
    /\ pc' = "estimated"
    /\ UNCHANGED <<plannerVars, studentVars, learnerVars, calls>>

InitEstimate ==
    /\ PlannerIdle
    /\ TutorIdle
    /\ pc = "estimate"

NextEstimate ==
    \/ Evaluate
    \/ EvaluateStepwise
    \/ InferEmotion

SpecEstimate == InitEstimate /\ [][NextEstimate]_vars

----------------------------------------------------------------------------
(* update_from_feedback (Module4_RF.py)                                    *)

\* Optional arguments: None is the empty tuple, a given value x is <<x>>.
None == <<>>

\* Lines 125-143, in ten-thousandths; the student fields are in hundredths.
reward_function(m, f, e, resp) ==
    (IF resp \in {"success", "improved", "engaged"} THEN 100000 ELSE 0)
    - (IF resp = "frustrated" THEN 120000 ELSE 0)
    - (IF resp = "bored" THEN 60000 ELSE 0)
    + e * 300
    + m * 500
    - (IF f > 90 \/ e < 15 THEN 500000 ELSE 0)

\* Lines 172-178, on a difficulty in hundredths.
difficulty_to_level(diff) ==
    IF diff < 33 THEN "easy" ELSE IF diff < 66 THEN "medium" ELSE "hard"

\* Lines 180-191.
apply_action_to_difficulty(action, cur_diff) ==
    IF action = "increase_difficulty" THEN min(100, cur_diff + 8)
    ELSE IF action = "decrease_difficulty" THEN max(0, cur_diff - 8)
    ELSE IF action = "switch_style" THEN min(100, cur_diff + 2)
    ELSE IF action = "offer_revision" THEN max(0, cur_diff - 4)
    ELSE cur_diff

\* str.lower on the ASCII letters.
RECURSIVE lower(_)
lower(s) ==
    LET upper_case == "ABCDEFGHIJKLMNOPQRSTUVWXYZ"
        lower_case == "abcdefghijklmnopqrstuvwxyz"
        c == Char(s, 1)
        at == {i \in 1..26 : Char(upper_case, i) = c}
    IN IF s = "" THEN ""
       ELSE (IF at = {} THEN c ELSE Char(lower_case, MinOf(at))) \o lower(SubSeq(s, 2, Len(s)))

\* sub in s, for strings.
contains(s, sub) ==
    \E i \in 1..(Len(s) - Len(sub) + 1) : SubSeq(s, i, i + Len(sub) - 1) = sub

\* Lines 196-221.  An empty feedback text is falsy, like None.
infer_response_from_user_feedback(user_correct, time_spent, feedback) ==
    LET given == feedback # None /\ feedback[1] # ""
    IN IF user_correct = <<TRUE>> THEN "success"
       ELSE IF user_correct = <<FALSE>>
       THEN IF given /\ contains(lower(feedback[1]), "hard") THEN "frustrated"
            ELSE IF time_spent # None /\ time_spent[1] > 45 THEN "frustrated"
            ELSE "bored"
       ELSE IF given
       THEN LET fb == lower(feedback[1])
            IN IF contains(fb, "too hard") \/ contains(fb, "hard") THEN "frustrated"
               ELSE IF contains(fb, "too easy") \/ contains(fb, "easy") THEN "bored"
               ELSE IF contains(fb, "unclear") THEN "confused"
               ELSE "improved"
       ELSE "neutral"

\* Lines 267-274: the reward after the adjustments for the user's signals.
adjusted_reward(base, user_correct, time_spent) ==
    base
    + (IF user_correct = <<TRUE>> THEN 50000 ELSE IF user_correct = <<FALSE>> THEN -20000 ELSE 0)
    - (IF time_spent # None /\ time_spent[1] > 120 THEN 30000 ELSE 0)

\* Mutant: next_state is taken from the student as it was before respond.
feedback_next_stateBefore(b, before, after) ==
    discretize_state(b, before.mastery_level * 100, before.frustration * 100,
                     before.engagement * 100)

\* Lines 279-283 and 286-290: next_state, from the student after step 1.
feedback_next_state(b, before, after) ==
    discretize_state(b, after.mastery_level * 100, after.frustration * 100,
                     after.engagement * 100)

\* One call update_from_feedback(tutor, student, last_action, last_state,
\* current_diff, user_correct, time_spent, feedback) (lines 223-315).  The
\* student is as constructed or drilled, so its mastery is the literal 0.30
\* and the comparison of line 41 is exact.
UpdateFromFeedback ==
    /\ pc = "feedback"
    /\ \E last_action \in {None, <<"increase_difficulty">>, <<"offer_revision">>},
          last_state \in {None} \cup {<<st>> : st \in QStates},
          current_diff \in Difficulties,
          user_correct \in {None, <<TRUE>>, <<FALSE>>},
          time_spent \in {None, <<50>>, <<130>>},
          feedback \in {None, <<"">>, <<"Too Hard">>, <<"unclear">>},
          n1 \in Jitters, n2 \in Jitters :
          LET before == [mastery_level |-> mastery_level, frustration |-> frustration,
                         engagement |-> engagement, response |-> response]
              after == IF last_action # None
                       THEN respond(mastery_level, frustration, engagement,
                                    last_action[1], current_diff, n1, n2)
                       ELSE before
              simulated_response ==
                  IF last_action # None THEN after.response
                  ELSE infer_response_from_user_feedback(user_correct, time_spent, feedback)
              reward == adjusted_reward(
                            reward_function(after.mastery_level, after.frustration,
                                            after.engagement, simulated_response),
                            user_correct, time_spent)
              next_state == feedback_next_state(n_buckets, before, after)
              updates == last_state # None /\ last_action # None
              updated == IF updates
                         THEN update(q_table, last_state[1], last_action[1], reward, next_state)
                         ELSE q_table
              cur_state == discretize_state(n_buckets, after.mastery_level * 100,
                                            after.frustration * 100, after.engagement * 100)
          IN /\ mastery_level' = after.mastery_level
             /\ frustration' = after.frustration
             /\ engagement' = after.engagement
             /\ response' = after.response
             /\ q_table' = ensure_state(updated, cur_state)
             /\ touched' = touched \cup {cur_state}
                               \cup (IF updates THEN {last_state[1], next_state} ELSE {})
             /\ targeted' = targeted
                                \cup (IF updates THEN {<<last_state[1], last_action[1]>>} ELSE {})
             /\ \E next_action \in choose_action(q_table', cur_state) :
                    call' = [op |-> "update_from_feedback",
                             last_action |-> last_action,
                             last_state |-> last_state,
                             current_diff |-> current_diff,
                             updated |-> TRUE,
                             response_label |-> simulated_response,
                             reward |-> reward,
                             next_action |-> next_action,
                             next_difficulty |-> apply_action_to_difficulty(next_action,
                                                                           current_diff),
                             next_level |-> difficulty_to_level(
                                                apply_action_to_difficulty(next_action,
                                                                           current_diff)),
                             current_state |-> cur_state,
                             next_state |-> next_state]
    /\ calls' = calls + 1
    /\ pc' = "fed_back"
    /\ UNCHANGED <<plannerVars, n_buckets, snapshot>>

\* A table that has learnt from one transition (update called once on the
\* empty table).
TrainedTable == update(<<>>, <<1, 1, 3>>, "switch_style", 100000, <<1, 1, 4>>)

\* A tutor that is new or has learnt from one transition, and a student that
\* is new or has been through a run of too-hard questions.
InitFeedback ==
    /\ PlannerIdle
    /\ \E k \in 0..MaxDrill :
           LET st == Drilled(k)
           IN /\ mastery_level = st.mastery_level
              /\ frustration = st.frustration
              /\ engagement = st.engagement
              /\ response = st.response
    /\ q_table \in {<<>>, TrainedTable}
    /\ n_buckets = DefaultBuckets
    /\ snapshot = NoFile
    /\ touched = DOMAIN q_table
    /\ targeted = {sa \in {<<<<1, 1, 3>>, "switch_style">>} : q_table # <<>>}
    /\ calls = 0
    /\ call = NoCall
    /\ pc = "feedback"

NextFeedback == UpdateFromFeedback

SpecFeedback == InitFeedback /\ [][NextFeedback]_vars

----------------------------------------------------------------------------
(* Properties of the GraphPlan pipeline (specification Spec)               *)

IsReference == actions = REF_ACTIONS /\ initial = RefInitial /\ goal = RefGoal

\* C1: on the reference domain with initial {NoKnowledge(ch1)} and goal
\* {FullKnowledge(ch1)}, graphplan_extract returns a plan (not None) and
\* simulate_plan on it returns ok=True with FullKnowledge(ch1) in the final state.
C1_ReferenceScenario ==
    IsReference =>
        /\ pc = "returned" => ~gp_plan.none
        /\ pc = "done" => /\ sim_ret.returned
                          /\ sim_ret.ok
                          /\ literal("FullKnowledge") \in state

C1_Witness ==
    /\ IsReference
    /\ pc = "done"
    /\ plan = gp_plan.flat
    /\ Len(plan) > 0
    /\ sim_ret.ok
    /\ literal("FullKnowledge") \in state

\* C2: whenever the extractor ends its backward pass with needed empty, the
\* simulator accepts the plan and the final state contains the goal.
C2_RoundTrip ==
    (pc = "done" /\ needed = {}) => (sim_ret.ok /\ goal \subseteq state)

LastTwoEqual ==
    /\ Len(literal_levels) >= 2
    /\ literal_levels[Len(literal_levels)] = literal_levels[Len(literal_levels) - 1]

\* C8: graphplan_extract returns None exactly when no literal level built within
\* max_levels contains every goal literal; otherwise it returns a list of names
\* of domain actions, and its backward loop only reads action levels that exist.
C8_NoneIffGoalAbsent ==
    /\ pc \in {"returned", "simulate", "done"} =>
           /\ gp_plan.none <=>
                  (\A i \in 1..Len(literal_levels) : ~(goal \subseteq literal_levels[i]))
           /\ SeqRange(gp_plan.flat) \subseteq SeqRange(Names(actions))
    /\ pc = "select" =>
           /\ lvl + 1 \in 1..Len(action_levels)
           /\ lvl + 1 \in 1..Len(action_mutex_levels)
           /\ lvl + 1 \in 1..Len(chosen_actions_by_level)

\* The goal is reachable in the domain but not within the depth budget.
C8_Witness ==
    /\ pc = "returned"
    /\ gp_plan.none
    /\ Len(action_levels) = max_levels
    /\ ~LastTwoEqual
    /\ goal \subseteq NextLiterals(Last(literal_levels),
                                   Applicable(actions, Last(literal_levels)))

\* C9: literal level 0 is the initial set and every literal level is contained
\* in the next one.
C9_LevelsMonotone ==
    /\ literal_levels[1] = initial
    /\ \A i \in 1..(Len(literal_levels) - 1) : literal_levels[i] \subseteq literal_levels[i + 1]

C9_Witness ==
    /\ pc = "find"
    /\ Len(literal_levels) >= 3
    /\ literal_levels[1] # literal_levels[2]
    /\ literal_levels[2] # literal_levels[3]
    /\ \E a \in SeqRange(action_levels[2]) : a.del \cap literal_levels[2] # {}

StrictSubset(A, B) == A \subseteq B /\ A # B

\* C10 as stated: at most max_levels action levels, and every literal level
\* that has a successor is a strict subset of it.
C10_AllLevelsStrict ==
    /\ Len(action_levels) <= max_levels
    /\ \A i \in 1..(Len(literal_levels) - 1) :
           StrictSubset(literal_levels[i], literal_levels[i + 1])

\* C10 (amended): at most max_levels expansions are made; every literal level
\* before the last two is a strict subset of its successor, so the only
\* expansion that may add nothing is the last one; and the builder returns
\* either at that fixed point or after exactly max_levels expansions.
C10_StopsAtFirstFixedPoint ==
    /\ pc \in {"build", "find"} => lvl = Len(action_levels)
    /\ Len(action_levels) <= max_levels
    /\ Len(literal_levels) = Len(action_levels) + 1
    /\ \A i \in 1..(Len(literal_levels) - 2) :
           StrictSubset(literal_levels[i], literal_levels[i + 1])
    /\ pc = "build" => ~LastTwoEqual
    /\ pc # "build" => (LastTwoEqual \/ Len(action_levels) = max_levels)

\* The builder stopped at a fixed point before its budget was used up.
C10_Witness ==
    /\ pc = "find"
    /\ LastTwoEqual
    /\ Len(action_levels) < max_levels
    /\ Len(literal_levels) >= 3

----------------------------------------------------------------------------
(* Properties of simulate_plan (specification SpecSim)                     *)

ActionNamed(aname) == CHOOSE a \in SeqRange(actions) : a.name = aname

\* The literal set after the first k plan entries, each applied as
\* (state \ del) \cup add; an unknown name changes nothing.
RECURSIVE StateAfter(_)
StateAfter(k) ==
    IF k = 0 THEN initial
    ELSE IF \E a \in SeqRange(actions) : a.name = plan[k]
         THEN (StateAfter(k - 1) \ ActionNamed(plan[k]).del) \cup ActionNamed(plan[k]).add
         ELSE StateAfter(k - 1)

StepOk(k) ==
    /\ \E a \in SeqRange(actions) : a.name = plan[k]
    /\ ActionNamed(plan[k]).pre \subseteq StateAfter(k - 1)

OffendingSteps == {k \in 1..Len(plan) : ~StepOk(k)}

\* C6: simulate_plan returns ok=True exactly when every plan entry is a known
\* action whose preconditions hold in the state reached by the entries before
\* it (delete before add); then the returned state is the whole plan applied to
\* a copy of initial, and initial itself is never modified.
C6_SimulateOk ==
    /\ [](pc = "done" =>
            /\ sim_ret.returned
            /\ sim_ret.ok <=> (OffendingSteps = {})
            /\ sim_ret.ok => state = StateAfter(Len(plan)))
    /\ [][initial' = initial]_vars

\* A plan of three entries that succeeds and runs an action whose add and
\* delete sets overlap.
C6_Witness ==
    /\ pc = "done"
    /\ sim_ret.ok
    /\ Len(plan) >= 3
    /\ state # initial
    /\ \E k \in 1..Len(plan) : ActionNamed(plan[k]).add \cap ActionNamed(plan[k]).del # {}

\* C7: a failing simulate_plan fails at the first offending entry i: ok=False,
\* the error names step i ("not found" for an unknown name, the precondition
\* message otherwise), and the returned state is the one after entries 1..i-1.
C7_FailsAtFirstOffender ==
    pc = "done" =>
        IF sim_ret.ok
        THEN sim_ret.err = NoError
        ELSE /\ OffendingSteps # {}
             /\ sim_ret.err.step = MinOf(OffendingSteps)
             /\ sim_ret.err.kind =
                    (IF \E a \in SeqRange(actions) : a.name = plan[sim_ret.err.step]
                     THEN "preconditions not satisfied" ELSE "not found")
             /\ sim_i = sim_ret.err.step - 1
             /\ state = StateAfter(sim_ret.err.step - 1)

\* Failure at the second entry, after the first changed the state, with a
\* third entry left unexecuted.
C7_Witness ==
    /\ pc = "done"
    /\ ~sim_ret.ok
    /\ sim_ret.err.step = 2
    /\ Len(plan) = 3
    /\ state # initial

----------------------------------------------------------------------------
(* Properties of POPPlanner.plan (specification SpecPOP)                   *)

PopResult == pc = "pop_returned" /\ pop_ret.returned /\ ~pop_ret.none

\* No non-empty set of steps in which every step has a predecessor (other
\* than itself) inside the set: order, self-loops ignored, has no cycle.
OrderAcyclic ==
    \A C \in SUBSET (0..(Len(steps) - 1)) :
        C # {} => \E v \in C : \A u \in C : u = v \/ <<u, v>> \notin order

\* C3: whenever POPPlanner.plan returns a result, order without its
\* self-loops is acyclic.
C3_OrderAcyclic == PopResult => OrderAcyclic

StepIndexOf(name) == CHOOSE i \in 0..(Len(steps) - 1) : steps[i + 1].name = name

\* C4: the linearization has len(steps)-2 names exactly when order (self-loops
\* ignored) is acyclic and is strictly shorter when order has a cycle; it never
\* holds Start or Finish, and every listed step comes after all its order
\* predecessors.
C4_LinearizationLength ==
    PopResult =>
        LET lin == pop_ret.linearization
        IN /\ (Len(lin) = Len(steps) - 2) <=> OrderAcyclic
           /\ ~OrderAcyclic => Len(lin) < Len(steps) - 2
           /\ \A k \in 1..Len(lin) :
                  /\ lin[k] \notin {"Start", "Finish"}
                  /\ \E i \in 2..(Len(steps) - 1) : steps[i + 1].name = lin[k]
                  /\ \A j \in 1..Len(lin) : j # k => lin[j] # lin[k]
                  /\ \A u \in 2..(Len(steps) - 1) :
                         (u # StepIndexOf(lin[k]) /\ <<u, StepIndexOf(lin[k])>> \in order)
                             => \E j \in 1..(k - 1) : lin[j] = steps[u + 1].name

\* A residual cycle between two steps, next to a third step that is listed.
C4_Witness ==
    /\ PopResult
    /\ ~OrderAcyclic
    /\ Len(pop_ret.linearization) < Len(steps) - 2
    /\ \E e \in order : e[1] = e[2]

NoProducer(lit) ==
    /\ \A i \in 1..Len(steps) : lit \notin steps[i].add
    /\ \A k \in 1..Len(actions) : lit \notin actions[k].add

\* C5: POPPlanner.plan returns None exactly when the open condition it popped
\* last has a literal that no existing step (Start included) and no action
\* schema adds; every other return is a result record, and the
\* loop only reads steps that exist.
C5_NoneIffNoProducer ==
    /\ (pop_ret.returned /\ pop_ret.none) <=> (popped.has /\ NoProducer(popped.lit))
    /\ pop_ret.returned <=> pc \in {"pop_returned", "simulate", "done"}
    /\ pc = "pop" =>
           (open_conditions # <<>> => Head(open_conditions)[1] \in 1..(Len(steps) - 1))

\* None after the planner had already added a step for an earlier condition.
C5_Witness ==
    /\ pc = "pop_returned"
    /\ pop_ret.none
    /\ iter_count >= 2
    /\ Len(steps) >= 3
    /\ popped.consumer_idx >= 2

\* C11: in every result of POPPlanner.plan the ordering set holds
\* (Start, Finish) and, for every step s other than Start and Finish, both
\* (Start, s) and (s, Finish); this also holds when the loop stopped because
\* max_iters was used up.  The pairs are in place from the moment a step is
\* created, so the statement holds in every state of the planner.
C11_SentinelOrdering ==
    pc \in {"pop", "kahn", "pop_returned"} =>
        /\ <<0, 1>> \in order
        /\ \A s \in 2..(Len(steps) - 1) : <<0, s>> \in order /\ <<s, 1>> \in order

\* A result produced after max_iters ran out with conditions still open and
\* two steps created.
C11_Witness ==
    /\ PopResult
    /\ iter_count = max_iters
    /\ open_conditions # <<>>
    /\ Len(steps) >= 4
    /\ C11_SentinelOrdering

----------------------------------------------------------------------------
(* Properties of the student simulator (specification SpecStudent)         *)

\* C12: after any sequence of respond calls from the defaults (0.30, 0.20,
\* 0.70), with any actions, difficulties and jitter of either sign,
\* mastery_level, frustration and engagement each stay within [0, 1].
C12_StaysInUnitInterval ==
    pc = "student" =>
        /\ mastery_level \in 0..100
        /\ frustration \in 0..100
        /\ engagement \in 0..100

----------------------------------------------------------------------------
(* Properties of the Q-table (specification SpecLearn)                     *)

\* The value the table holds for a pair before a call, 0 for an absent row.
HeldBefore(st, a) == IF st \in DOMAIN q_table THEN q_table[st][a] ELSE 0

\* C13: update(s, a, r, s') sets Q[s][a] to
\* Q[s][a] + lr * (r + gamma * max_a' Q[s'][a'] - Q[s][a]) computed from the
\* values held before the call (also when s' = s, and with a maximum of 0
\* for an unseen s'), leaves every other value already in the table
\* unchanged, and its only other effect is to create all-zero rows for s
\* and s' when they were absent.
C13_UpdateFrame ==
    [][(call'.op = "update" /\ calls' = calls + 1) =>
          LET s == call'.state
              a == call'.action
              r == call'.reward
              s2 == call'.next_state
              before == HeldBefore(s, a)
              max_before == MaxOf({HeldBefore(s2, b) : b \in TutorActionSet})
          IN /\ q_table'[s][a] =
                    before + (lr * (r + (gamma * max_before) \div 10000 - before)) \div 10000
             /\ DOMAIN q_table' = DOMAIN q_table \cup {s, s2}
             /\ \A k \in DOMAIN q_table' :
                    /\ DOMAIN q_table'[k] = TutorActionSet
                    /\ \A b \in TutorActionSet :
                           <<k, b>> # <<s, a>> => q_table'[k][b] = HeldBefore(k, b)
      ]_vars

\* An update with s' = s on a row that already holds a non-zero value for
\* the pair and for another action.
C13_Witness ==
    /\ pc = "learn"
    /\ call.op = "update"
    /\ call.state = call.next_state
    /\ calls = MaxCalls
    /\ \A a \in UpdateActions : q_table[call.state][a] # 0
    /\ DOMAIN q_table = QStates

\* C14: the table is populated lazily: starting empty, after any sequence
\* of choose_action, ensure_state and update calls a state is a key only if
\* it was passed to one of those calls, every row maps exactly the four
\* actions, and a row holds 0 for every action until an update is aimed at
\* that state-action pair.
C14_LazyTable ==
    pc = "learn" =>
        /\ DOMAIN q_table \subseteq touched
        /\ \A st \in DOMAIN q_table :
               /\ DOMAIN q_table[st] = TutorActionSet
               /\ \A a \in TutorActionSet : <<st, a>> \notin targeted => q_table[st][a] = 0

\* A table with one row created by a call other than an update aimed at it
\* and one row changed by an update.
C14_Witness ==
    /\ pc = "learn"
    /\ DOMAIN q_table = QStates
    /\ \E st \in QStates : \A a \in TutorActionSet : <<st, a>> \notin targeted
    /\ \E st \in QStates, a \in TutorActionSet : q_table[st][a] # 0
    /\ C14_LazyTable

----------------------------------------------------------------------------
(* Properties of the snapshot file (specification SpecStore)               *)

\* C15: save_q_table followed by load_q_table on the same path gives back
\* exactly the same set of state keys and the same Q-value for every
\* state-action pair, for any table whose keys are integer triples.
C15_SaveLoadRoundTrip ==
    (pc = "store" /\ call.op = "load_q_table" /\ call.after_save) => q_table = call.saved

\* A round trip of a full table holding a negative and a two-digit key
\* component and a row with negative values.
C15_Witness ==
    /\ pc = "store"
    /\ call.op = "load_q_table"
    /\ call.after_save
    /\ Cardinality(DOMAIN call.saved) = MaxRows
    /\ <<-1, 10, 4>> \in DOMAIN call.saved
    /\ \E k \in DOMAIN call.saved : \E a \in TutorActionSet : call.saved[k][a] < 0
    /\ q_table = call.saved


\* The entries of the file read by the last load whose key parses to
\* three integers, and those replaced by a later entry with the same key.
LoadedFile == call.file.entries
WellFormed(i) == parse_key(LoadedFile[i][1]).ok
KeyOf(i) == parse_key(LoadedFile[i][1]).key
Replaced(i) == \E j \in (i + 1)..Len(LoadedFile) : WellFormed(j) /\ KeyOf(j) = KeyOf(i)

\* C16 as stated: load_q_table skips malformed entries one by one: an entry
\* whose key does not parse to exactly three integers is dropped, and every
\* well-formed entry of the same file is still loaded with its values,
\* however many other entries were dropped.
C16_EveryWellFormedLoaded ==
    (pc = "store" /\ call.op = "load_q_table" /\ call.file.exists) =>
        /\ DOMAIN q_table = {KeyOf(i) : i \in {j \in 1..Len(LoadedFile) : WellFormed(j)}}
        /\ \A i \in 1..Len(LoadedFile) :
               WellFormed(i) => q_table[KeyOf(i)] = row_load(LoadedFile[i][2])

\* C16, amended: an entry whose key does not parse to exactly three
\* integers is dropped, and every well-formed entry is loaded with its
\* values unless a later well-formed entry of the file has a key that
\* parses to the same triple, in which case the later entry's values are
\* the ones kept; the number of dropped entries makes no difference.
C16_WellFormedLoadedLastWins ==
    (pc = "store" /\ call.op = "load_q_table" /\ call.file.exists) =>
        /\ DOMAIN q_table = {KeyOf(i) : i \in {j \in 1..Len(LoadedFile) : WellFormed(j)}}
        /\ \A i \in 1..Len(LoadedFile) :
               (WellFormed(i) /\ ~Replaced(i)) => q_table[KeyOf(i)] = row_load(LoadedFile[i][2])

\* A file whose first two entries are malformed and whose last entry is
\* well-formed and loaded.
C16_Witness ==
    /\ pc = "store"
    /\ call.op = "load_q_table"
    /\ call.file.exists
    /\ Len(LoadedFile) = MaxEntries
    /\ \A i \in 1..(MaxEntries - 1) : ~WellFormed(i)
    /\ WellFormed(MaxEntries)
    /\ DOMAIN q_table = {KeyOf(MaxEntries)}
    /\ q_table[KeyOf(MaxEntries)] = row_load(LoadedFile[MaxEntries][2])
    /\ \E a \in TutorActionSet : q_table[KeyOf(MaxEntries)][a] # 0

----------------------------------------------------------------------------
(* Properties of discretize_state (specification SpecDiscretize)           *)

\* C17 as stated: for every (m, f, e) in [0,1]^3, 1.0 included,
\* discretize_state returns three integers each in [0, n_buckets); 1.0 maps
\* to bucket n_buckets - 1; and each component is non-decreasing in its
\* input.  It fails for a tutor of 10001 buckets, where 1.0 maps to 9999,
\* and for one of no buckets, where every input maps to 0.
C17_BucketsInRange ==
    pc = "discretized" =>
        \A i \in 1..3 :
            /\ call.ret[i] \in 0..(n_buckets - 1)
            /\ call.args[i] = 10000 => call.ret[i] = n_buckets - 1
            /\ \A y \in Grid : y <= call.args[i] => bucket(y, n_buckets) <= call.ret[i]
            /\ \A y \in Grid : y >= call.args[i] => bucket(y, n_buckets) >= call.ret[i]

\* C17, amended: for a tutor of at least one bucket and every (m, f, e) in
\* [0,1]^3, 1.0 included, discretize_state returns three integers each in
\* [0, n_buckets), and each component is non-decreasing in its input; 1.0
\* maps to bucket n_buckets - 1 when n_buckets is at most 10000, and to a
\* lower bucket when it is larger.
C17_TopBucketUpToTenThousand ==
    (pc = "discretized" /\ n_buckets >= 1) =>
        \A i \in 1..3 :
            /\ call.ret[i] \in 0..(n_buckets - 1)
            /\ (call.args[i] = 10000 /\ n_buckets <= 10000) => call.ret[i] = n_buckets - 1
            /\ (call.args[i] = 10000 /\ n_buckets > 10000) => call.ret[i] < n_buckets - 1
            /\ \A y \in Grid : y <= call.args[i] => bucket(y, n_buckets) <= call.ret[i]
            /\ \A y \in Grid : y >= call.args[i] => bucket(y, n_buckets) >= call.ret[i]

\* The call discretize_state(1.0, 0.0, 0.5) with the default five buckets.
C17_Witness ==
    /\ pc = "discretized"
    /\ n_buckets = DefaultBuckets
    /\ call.args = <<10000, 0, 5000>>
    /\ call.ret = <<4, 0, 2>>

----------------------------------------------------------------------------
(* Properties of the emotion estimators (specification SpecEstimate)       *)

RECURSIVE SumSeq(_)
SumSeq(s) == IF s = <<>> THEN 0 ELSE Head(s) + SumSeq(Tail(s))

ColumnsSumToOne(tbl) ==
    /\ Len(tbl) = 5
    /\ \A r \in 1..5 : Len(tbl[r]) = 18 /\ \A c \in 1..18 : tbl[r][c] \in 0..100
    /\ \A index \in 0..17 : SumSeq(Column(tbl, index)) = 100

IsTableLookup == call.op \in {"evaluate_emotional_status", "evaluate_emotional_status_stepwise"}

\* C18: each of the 18 columns of the 5x18 table (CPD_EMOTION_VALUES and
\* CPD) sums to 1.0 and each entry is a probability in [0, 1], so the
\* posterior read for any of the 18 evidence combinations sums to 1.0.
C18_ColumnsAreDistributions ==
    /\ ColumnsSumToOne(CPD_EMOTION_VALUES)
    /\ ColumnsSumToOne(CPD)
    /\ (pc = "estimated" /\ IsTableLookup) =>
           /\ SumSeq(call.posterior) = 100
           /\ \A r \in 1..5 : call.posterior[r] \in 0..100

\* A lookup of the last column, whose entries are 0.01, 0.05, 0.15, 0.35, 0.44.
C18_Witness ==
    /\ pc = "estimated"
    /\ IsTableLookup
    /\ call.index = 17
    /\ call.posterior = <<1, 5, 15, 35, 44>>

\* The categories of the evidence as the claim words them.
ClaimC == IF call.correct THEN 0 ELSE 1
ClaimT == IF call.time < 20 THEN 0 ELSE IF call.time < 60 THEN 1 ELSE 2
ClaimF == IF call.feedback = "Too Easy" THEN 0 ELSE IF call.feedback = "Too Hard" THEN 2 ELSE 1

\* C19: evaluate_emotional_status returns the label with the largest value
\* in column C + 2*T + 6*F, where C = 0 iff the answer was correct, T = 0
\* for time < 10, 1 for time < 30, else 2, and F = 0/1/2 for Too Easy /
\* Just Right / Too Hard with any other feedback mapped to 1; the index is
\* always in 0..17, different (C, T, F) select different columns, and
\* (correct, 15 s, Just Right) selects column 8 and gives highly_confident.
C19_MapOfSelectedColumn ==
    (pc = "estimated" /\ IsTableLookup) =>
        /\ call.index = ClaimC + 2 * ClaimT + 6 * ClaimF
        /\ call.index \in 0..17
        /\ \A c \in 0..1, t \in 0..2, f \in 0..2 :
               <<c, t, f>> # <<ClaimC, ClaimT, ClaimF>> => c + 2 * t + 6 * f # call.index
        /\ call.posterior = Column(CPD_EMOTION_VALUES, call.index)
        /\ \E r \in 1..5 :
               /\ call.ret = EMOTION_STATES[r]
               /\ \A k \in 1..5 : call.posterior[k] <= call.posterior[r]
        /\ (call.correct /\ call.time = 30 /\ call.feedback = "Just Right") =>
               call.index = 8 /\ call.ret = "highly_confident"

\* The documented example: correct, 15 s, Just Right.
C19_Witness ==
    /\ pc = "estimated"
    /\ IsTableLookup
    /\ call.correct
    /\ call.time = 30
    /\ call.feedback = "Just Right"
    /\ call.index = 8
    /\ call.ret = "highly_confident"

\* C20: infer_emotion(correct=False, time=33.5, feedback="Too Hard")
\* returns frustrated as the MAP state: the product of prior,
\* P(incorrect | state), P(Too Hard | state) and the Gaussian density of
\* 33.5 is largest for frustrated.
C20_FrustratedIsMap ==
    (/\ pc = "estimated"
     /\ call.op = "infer_emotion"
     /\ ~call.correct
     /\ call.time = 67
     /\ call.feedback = "Too Hard") => call.ret = "frustrated"

----------------------------------------------------------------------------
(* Further properties of the GraphPlan pipeline (specification Spec)       *)

\* States in which graphplan_extract has picked a goal level.
GoalLevelPicked ==
    pc \in {"select", "flatten", "returned", "simulate", "done"} /\ level_with_goal # -1

\* C21: graphplan_extract takes as goal level the first (lowest-index)
\* literal level that contains the goal and selects actions only from the
\* action levels below it; in particular, when the goal is contained in the
\* initial literal set the returned plan is empty.
C21_FirstGoalLevel ==
    GoalLevelPicked =>
        /\ level_with_goal = MinOf(GoalLevels(literal_levels, goal))
        /\ Len(chosen_actions_by_level) = level_with_goal
        /\ (goal \subseteq initial /\ ~gp_plan.none /\ pc # "select" /\ pc # "flatten") =>
               gp_plan.flat = <<>>


\* C22: in graphplan_extract any two different actions chosen at the same
\* level are not a mutex pair of that level, every chosen action is
\* applicable at its level, and every chosen action adds at least one
\* literal that was in needed when the selection for that level began.
C22_ChosenActionsSound ==
    [][pc = "select" =>
          LET names == chosen_actions_by_level'[lvl + 1]
          IN /\ \A i, j \in 1..Len(names) :
                    i # j => /\ names[i] # names[j]
                             /\ <<names[i], names[j]>> \notin action_mutex_levels[lvl + 1]
             /\ \A i \in 1..Len(names) :
                    \E k \in 1..Len(actions) :
                        /\ actions[k].name = names[i]
                        /\ actions[k].pre \subseteq literal_levels[lvl + 1]
                        /\ actions[k].add \cap needed # {}
      ]_vars

\* A returned plan with two actions chosen at a level that has mutex pairs.
C22_Witness ==
    /\ pc = "returned"
    /\ ~gp_plan.none
    /\ \E l \in 1..Len(chosen_actions_by_level) :
           /\ Len(chosen_actions_by_level[l]) >= 2
           /\ action_mutex_levels[l] # {}


\* C23: when the iteration budget is used up while conditions are still open,
\* plan leaves the loop with the partial plan untouched and returns the usual
\* record (not None): the linearization of what Kahn's loop produced and the
\* deduplicated causal links; None is returned only for a popped literal that
\* no step and no action adds.
C23_ExhaustionReturnsRecord ==
    [][/\ (pc = "pop" /\ open_conditions # <<>> /\ iter_count >= max_iters) =>
              /\ pc' = "kahn"
              /\ UNCHANGED <<steps, order, causal_links, open_conditions, pop_ret>>
       /\ (pc = "kahn" /\ pc' = "pop_returned") =>
              /\ ~pop_ret'.none
              /\ pop_ret'.returned
              /\ pop_ret'.linearization = Linearization(steps, topo)
              /\ pop_ret'.causal_links = Dedupe(causal_links, <<>>)
       /\ (pc' = "pop_returned" /\ pop_ret'.none) =>
              /\ ExistingProducer(steps, popped'.lit) = -1
              /\ FirstAdder(actions, popped'.lit) = 0
      ]_vars

\* A record returned after the budget ran out with conditions still open.
C23_Witness ==
    /\ pc = "pop_returned"
    /\ ~pop_ret.none
    /\ iter_count = max_iters
    /\ open_conditions # <<>>


\* C24: the producer recorded for a popped condition (consumer, lit) is the
\* lowest-index step adding lit, Start included; a step is appended only when
\* no step added lit, and it is the first declared action adding lit; no two
\* appended steps are the same action and len(steps) <= len(actions) + 2.
C24_ReuseBeforeNewStep ==
    [][(pc = "pop" /\ Len(causal_links') = Len(causal_links) + 1) =>
          LET link == causal_links'[Len(causal_links')]
              p == link[1]
              lit == link[2]
          IN /\ lit = Head(open_conditions)[2]
             /\ link[3] = Head(open_conditions)[1]
             /\ lit \in steps'[p + 1].add
             /\ \A i \in 0..(p - 1) : lit \notin steps'[i + 1].add
             /\ IF \E i \in 1..Len(steps) : lit \in steps[i].add
                THEN steps' = steps
                ELSE /\ Len(steps') = Len(steps) + 1
                     /\ p = Len(steps)
                     /\ \E k \in 1..Len(actions) :
                            /\ steps'[p + 1] = actions[k]
                            /\ lit \in actions[k].add
                            /\ \A k2 \in 1..(k - 1) : lit \notin actions[k2].add
             /\ Len(steps') <= Len(actions) + 2
             /\ \A i, j \in 3..Len(steps') : i # j => steps'[i] # steps'[j]
      ]_vars

\* A plan that both reused a step other than Start and instantiated an action
\* that is not the only one adding the literal it was chosen for.
C24_Witness ==
    /\ pc = "pop_returned"
    /\ ~pop_ret.none
    /\ Len(steps) >= 4
    /\ \E i, j \in 1..Len(causal_links) :
           /\ i < j
           /\ causal_links[i][1] = causal_links[j][1]
           /\ causal_links[i][1] >= 2
           /\ causal_links[i][2] = causal_links[j][2]
    /\ \E n \in 1..Len(causal_links) :
           /\ causal_links[n][1] >= 2
           /\ Cardinality({k \in 1..Len(actions) : causal_links[n][2] \in actions[k].add}) >= 2


\* Position of the first occurrence of x in seq.
FirstAt(seq, x) == MinOf({i \in 1..Len(seq) : seq[i] = x})

\* C25: every causal link (p, lit, c) of a returned result has lit in
\* steps[p].add, lit in steps[c].pre and (p, c) in order; the returned list
\* holds every recorded link once, in the order of first recording.
C25_CausalLinksWellFormed ==
    (pc = "pop_returned" /\ ~pop_ret.none) =>
        LET links == pop_ret.causal_links
        IN /\ \A n \in 1..Len(links) :
                  LET p == links[n][1]
                      lit == links[n][2]
                      c == links[n][3]
                  IN /\ p \in 0..(Len(steps) - 1)
                     /\ c \in 0..(Len(steps) - 1)
                     /\ lit \in steps[p + 1].add
                     /\ lit \in steps[c + 1].pre
                     /\ <<p, c>> \in order
           /\ \A a, b \in 1..Len(links) : a # b => links[a] # links[b]
           /\ {links[n] : n \in 1..Len(links)} =
                  {causal_links[n] : n \in 1..Len(causal_links)}
           /\ \A a, b \in 1..Len(links) :
                  a < b => FirstAt(causal_links, links[a]) < FirstAt(causal_links, links[b])

\* A returned result whose loop recorded some link twice, with another link
\* recorded between the two.
C25_Witness ==
    /\ pc = "pop_returned"
    /\ ~pop_ret.none
    /\ \E i, j, k \in 1..Len(causal_links) :
           /\ i < j /\ j < k
           /\ causal_links[i] = causal_links[k]
           /\ causal_links[j] # causal_links[i]


\* The run of __main__: the reference domain with the default budget.
ReferenceRun ==
    actions = REF_ACTIONS /\ initial = RefInitial /\ goal = RefGoal /\ max_iters = RefMaxIters

\* C26: on the reference domain plan returns a result, whatever the order in
\* which preconditions are enqueued and successors become ready; its
\* linearization names every step but Start and Finish, and simulate_plan on
\* it returns ok with FullKnowledge in the final state.
C26_ReferenceLinearizationLegal ==
    ReferenceRun =>
        /\ pop_ret.returned => ~pop_ret.none
        /\ (pc \in {"simulate", "done"}) =>
               /\ plan = pop_ret.linearization
               /\ Len(plan) = Len(steps) - 2
               /\ {plan[i] : i \in 1..Len(plan)} = {steps[i].name : i \in 3..Len(steps)}
        /\ pc = "done" =>
               /\ sim_ret.ok
               /\ literal("FullKnowledge") \in state

\* The reference run simulated to its end on a linearization that visits the
\* evaluation branches in an order other than the declared one.
C26_Witness ==
    /\ ReferenceRun
    /\ pc = "done"
    /\ sim_ret.returned
    /\ \E i, j \in 1..Len(plan) :
           /\ i < j
           /\ plan[i] = "EvalNeutral_Frustrated"
           /\ plan[j] = "EvalNeutral_Confident"


\* One action deletes an add effect or a precondition of the other.
Interfere(a1, a2) ==
    \/ (a1.add \cap a2.del) # {}
    \/ (a2.add \cap a1.del) # {}
    \/ (a1.del \cap a2.pre) # {}
    \/ (a2.del \cap a1.pre) # {}

\* C27: at every action level the recorded mutex pairs are exactly the
\* ordered pairs of names of two distinct actions, both applicable at the
\* level, one of which deletes an add effect or a precondition of the other;
\* the level's literals matter through applicability only.
C27_ActionMutexExact ==
    \A l \in 1..Len(action_mutex_levels) :
        /\ \A i, j \in 1..Len(actions) :
               <<actions[i].name, actions[j].name>> \in action_mutex_levels[l] <=>
                   /\ i # j
                   /\ actions[i].pre \subseteq literal_levels[l]
                   /\ actions[j].pre \subseteq literal_levels[l]
                   /\ Interfere(actions[i], actions[j])
        /\ \A pr \in action_mutex_levels[l] :
               /\ <<pr[2], pr[1]>> \in action_mutex_levels[l]
               /\ pr[1] # pr[2]
               /\ \E i, j \in 1..Len(actions) :
                      pr = <<actions[i].name, actions[j].name>>

\* A pair that is mutex by a deleted precondition alone, recorded at two
\* levels whose literal sets differ.
C27_Witness ==
    \E l1, l2 \in 1..Len(action_mutex_levels) :
        \E i, j \in 1..Len(actions) :
            /\ l1 < l2
            /\ literal_levels[l1] # literal_levels[l2]
            /\ <<actions[i].name, actions[j].name>> \in action_mutex_levels[l1]
            /\ <<actions[i].name, actions[j].name>> \in action_mutex_levels[l2]
            /\ (actions[i].add \cap actions[j].del) = {}
            /\ (actions[j].add \cap actions[i].del) = {}


\* The actions of the action level built from the literals cur that add lit.
AddersAt(cur, lit) ==
    {k \in 1..Len(actions) : actions[k].pre \subseteq cur /\ lit \in actions[k].add}

\* C28: literal level 0 has no mutex pairs, and two literals of level i+1 are
\* recorded as mutex (in both orders) exactly when neither is in level i and
\* every action adding the first paired with every action adding the second,
\* among the actions applicable at level i, is a mutex pair of action level i.
C28_LiteralMutexExact ==
    /\ literal_mutex_levels[1] = {}
    /\ \A l \in 1..(Len(literal_mutex_levels) - 1) :
           LET cur == literal_levels[l]
               nxt == literal_levels[l + 1]
               Mutex(x, y) ==
                   /\ x # y
                   /\ x \notin cur
                   /\ y \notin cur
                   /\ \A a \in AddersAt(cur, x) : \A b \in AddersAt(cur, y) :
                          <<actions[a].name, actions[b].name>> \in action_mutex_levels[l]
           IN /\ \A pr \in literal_mutex_levels[l + 1] :
                     /\ pr[1] \in nxt
                     /\ pr[2] \in nxt
                     /\ Mutex(pr[1], pr[2])
              /\ \A x, y \in nxt : Mutex(x, y) => <<x, y>> \in literal_mutex_levels[l + 1]

\* Two literals mutex at one level and no longer mutex at the next, where
\* both persist.
C28_Witness ==
    \E l \in 2..(Len(literal_mutex_levels) - 1) :
        \E pr \in literal_mutex_levels[l] :
            /\ <<pr[2], pr[1]>> \in literal_mutex_levels[l]
            /\ pr \notin literal_mutex_levels[l + 1]
            /\ pr[1] \in literal_levels[l + 1]
            /\ pr[2] \in literal_levels[l + 1]


\* The number of distinct open conditions a domain can give rise to: one per
\* goal literal and one per precondition of each action.
DistinctConditions ==
    Cardinality(goal) +
    Cardinality({kl \in (1..Len(actions)) \X UNION {actions[k].pre : k \in 1..Len(actions)} :
                    kl[2] \in actions[kl[1]].pre})

\* C30 as stated: the loop runs at most once per open condition of the domain.
C30_IterationsWithinDomainSize == iter_count <= DistinctConditions

\* C30, amended: a condition is enqueued only while no causal link resolves
\* it, so the loop runs dry by itself (with the larger budget it never stops
\* at the cap, and on the reference domain it stops within 17 iterations);
\* copies enqueued before the first resolution are each resolved again.
C30_LoopEndsOnItsOwn ==
    [][/\ (pc = "pop" /\ iter_count' = iter_count + 1) =>
              \A n \in 1..Len(open_conditions') :
                  n >= Len(open_conditions) =>
                      ~\E m \in 1..Len(causal_links') :
                          /\ causal_links'[m][2] = open_conditions'[n][2]
                          /\ causal_links'[m][3] = open_conditions'[n][1]
       /\ (pc = "pop" /\ pc' = "kahn" /\ max_iters >= MaxIters) =>
              /\ open_conditions = <<>>
              /\ iter_count < max_iters
       /\ (pc = "pop" /\ pc' # "pop" /\ ReferenceRun) =>
              /\ pc' = "kahn"
              /\ iter_count <= 17
      ]_vars

\* A run that emptied the queue below the budget after more iterations than
\* the domain has open conditions.
C30_Witness ==
    /\ pc = "pop_returned"
    /\ ~pop_ret.none
    /\ open_conditions = <<>>
    /\ max_iters = MaxIters
    /\ iter_count > DistinctConditions
    /\ iter_count < max_iters


\* The discretized student state of the successor state.
PostState ==
    discretize_state(n_buckets, mastery_level' * 100, frustration' * 100, engagement' * 100)

\* C29: update_from_feedback changes the student exactly when last_action is
\* given, by one respond(last_action, current_diff); it updates the Q-table
\* exactly when last_state and last_action are both given, with s =
\* last_state, a = last_action and s' = the discretized student after the
\* response; otherwise every Q-value held before is kept and the only row
\* that may appear is an all-zero one for the current state.
C29_FeedbackUpdatesWhenBothGiven ==
    [][pc = "feedback" =>
          LET la == call'.last_action
              ls == call'.last_state
          IN /\ IF la = None
                THEN UNCHANGED <<mastery_level, frustration, engagement>>
                ELSE \E n1 \in Jitters, n2 \in Jitters :
                         LET r == respond(mastery_level, frustration, engagement,
                                          la[1], call'.current_diff, n1, n2)
                         IN /\ mastery_level' = r.mastery_level
                            /\ frustration' = r.frustration
                            /\ engagement' = r.engagement
                            /\ call'.response_label = r.response
             /\ call'.next_state = PostState
             /\ IF la # None /\ ls # None
                THEN /\ DOMAIN q_table' = DOMAIN q_table \cup {ls[1], PostState}
                     /\ \A st \in DOMAIN q_table' : \A a \in TutorActionSet :
                            q_table'[st][a] =
                                IF st = ls[1] /\ a = la[1]
                                THEN update(q_table, ls[1], la[1], call'.reward,
                                            PostState)[st][a]
                                ELSE HeldBefore(st, a)
                ELSE /\ DOMAIN q_table' = DOMAIN q_table \cup {PostState}
                     /\ \A st \in DOMAIN q_table : q_table'[st] = q_table[st]
                     /\ PostState \notin DOMAIN q_table => q_table'[PostState] = ZeroRow
      ]_vars

\* A call with both last_state and last_action after which the student sits
\* in another bucket than before, and the value of (last_state, last_action)
\* has moved.
C29_Witness ==
    /\ pc = "fed_back"
    /\ call.last_action # None
    /\ call.last_state # None
    /\ call.next_state # call.last_state[1]
    /\ call.next_state # <<1, 1, 3>>
    /\ call.last_action = <<"offer_revision">>
    /\ q_table[call.last_state[1]][call.last_action[1]] # 0
    /\ \E st \in DOMAIN q_table : st # call.last_state[1] /\ q_table[st] # ZeroRow

============================================================================
